---- MODULE Spec2Model ----
(***************************************************************************)
(* Model of the NMHomeControl backend: the session store (in-memory demo   *)
(* tier and durable sqlite tier), the authorization pipeline               *)
(* (authMiddleware, firstLoginMiddleware, deviceACLMiddleware), the        *)
(* access-control service and the WebSocket hub.                           *)
(*                                                                         *)
(* Time is a discrete clock `now`; one unit stands for a fixed fraction of *)
(* config.session.timeoutMinutes.  Session ids produced by randomBytes(32) *)
(* are modelled as fresh integers that are never handed out twice.         *)
(***************************************************************************)
EXTENDS Integers, Sequences, FiniteSets, Bags, TLC

\* ------------------------------------------------------------------ bounds
Timeout == 2        \* config.session.timeoutMinutes, in clock units
MaxTime == 4        \* the clock stops here
MaxSessions == 2    \* number of session ids ever created
Second == 3         \* clock units in one second, the resolution of datetime()

\* ------------------------------------------------------------- identities
DemoUserId == "demo-user-id"
SessionIds == 1..MaxSessions
NoCookie == 0       \* request without a sessionId cookie / query parameter
BogusId == -1       \* a token that was never issued
Tokens == SessionIds \cup {NoCookie, BogusId}

NULL == [id |-> 0, userId |-> "", expiresAt |-> 0, createdAt |-> 0, isDemoMode |-> FALSE]

VARIABLES
  now,           \* Date.now()
  nextId,        \* next fresh session id
  demoSessions,  \* the Map demoSessions: id -> Session
  dbSessions,    \* table sessions: id -> [userId, expiresAt, createdAt]
  touchedAt,     \* history: id -> time of creation or of the last refresh that wrote
  last,          \* the last operation and what it returned
  users,         \* table users: id -> [role, firstLogin]
  everUsers,     \* history: user ids ever inserted (ids are random, never reused)
  acl,           \* table access_control: bag of rows <<userId, resourceType, resourceId>>
  tx,            \* the open sqlite transaction of setUserAccess, or NoTx
  audit,         \* table audit_logs: the user ids that own at least one row
  reqs,          \* REST requests in the preHandler chain / handler
  conns,         \* WebSocket transports seen by the server
  clients,       \* WebSocketService.clients: userId -> set of connections
  wsClient,      \* the browser's WebSocketClient singleton, its sockets and timers
  server         \* the process: is the listener accepting, has the process exited

sessionVars == <<now, nextId, demoSessions, dbSessions, touchedAt>>
dbVars == <<users, everUsers, acl, tx, audit>>
hubVars == <<conns, clients>>
vars == <<now, nextId, demoSessions, dbSessions, touchedAt, last, users, everUsers,
          acl, tx, audit, reqs, conns, clients, wsClient,
          server>>

\* ---------------------------------------------------------- SessionService
\* an expiry that falls one unit short of the window
NewExpiry_short(t) == t + Timeout - 1

\* new Date(Date.now() + timeoutMinutes * 60 * 1000)
NewExpiry(t) == t + Timeout

\* a reversed comparison in the expiry check
IsExpired_reversed(expiresAt, t) == expiresAt > t

\* new Date(s.expiresAt) < new Date()
IsExpired(expiresAt, t) == expiresAt < t

\* the row of the sessions table read back as a Session object: the SELECT
\* has no isDemoMode column, so `session.isDemoMode || false` is false
RowToSession(sid, row) ==
  [id |-> sid, userId |-> row.userId, expiresAt |-> row.expiresAt,
   createdAt |-> row.createdAt, isDemoMode |-> FALSE]

\* a createSession that keeps every session in memory, flagged ephemeral
createSession_demo_any(d, sid, userId, isDemoMode, t) ==
  [k \in DOMAIN d \cup {sid} |->
     IF k = sid THEN [id |-> sid, userId |-> userId, expiresAt |-> NewExpiry(t),
                      createdAt |-> t, isDemoMode |-> TRUE]
     ELSE d[k]]

\* createSession: the tier is chosen by the isDemoMode flag
createSession_demo(d, sid, userId, isDemoMode, t) ==
  IF isDemoMode
  THEN [k \in DOMAIN d \cup {sid} |->
          IF k = sid THEN [id |-> sid, userId |-> userId, expiresAt |-> NewExpiry(t),
                           createdAt |-> t, isDemoMode |-> TRUE]
          ELSE d[k]]
  ELSE d

\* a createSession that writes the row whatever the flag says
createSession_db_always(b, sid, userId, isDemoMode, t) ==
  [k \in DOMAIN b \cup {sid} |->
     IF k = sid THEN [userId |-> userId, expiresAt |-> NewExpiry(t), createdAt |-> t]
     ELSE b[k]]

createSession_db(b, sid, userId, isDemoMode, t) ==
  IF isDemoMode
  THEN b
  ELSE [k \in DOMAIN b \cup {sid} |->
          IF k = sid THEN [userId |-> userId, expiresAt |-> NewExpiry(t), createdAt |-> t]
          ELSE b[k]]

Remove(f, sid) == [k \in DOMAIN f \ {sid} |-> f[k]]

\* a delete that leaves the table row in place
deleteSession_db_skip(d, b, sid) == b

\* deleteSession: the in-memory map first, the table otherwise
deleteSession_demo(d, sid) == IF sid \in DOMAIN d THEN Remove(d, sid) ELSE d
deleteSession_db(d, b, sid) == IF sid \in DOMAIN d THEN b ELSE Remove(b, sid)

\* getSession: the value returned
getSession_ret(d, b, sid, t) ==
  IF sid \in DOMAIN d
  THEN IF IsExpired(d[sid].expiresAt, t) THEN NULL ELSE d[sid]
  ELSE IF sid \notin DOMAIN b THEN NULL
  ELSE IF IsExpired(b[sid].expiresAt, t) THEN NULL
  ELSE RowToSession(sid, b[sid])

\* getSession: the two tiers after the call (an expired record is evicted)
getSession_demo(d, sid, t) ==
  IF sid \in DOMAIN d /\ IsExpired(d[sid].expiresAt, t) THEN Remove(d, sid) ELSE d

getSession_db(d, b, sid, t) ==
  IF sid \in DOMAIN d THEN b
  ELSE IF sid \in DOMAIN b /\ IsExpired(b[sid].expiresAt, t)
       THEN deleteSession_db(d, b, sid)
       ELSE b

\* refreshSession: writes now + timeout to the tier that holds the id
refreshSession_demo(d, sid, t) ==
  IF sid \in DOMAIN d THEN [d EXCEPT ![sid].expiresAt = NewExpiry(t)] ELSE d

\* a refresh that writes the row whether or not it is there
refreshSession_db_upsert(d, b, sid, t) ==
  IF sid \in DOMAIN d THEN b
  ELSE [k \in DOMAIN b \cup {sid} |->
          IF k = sid
          THEN [userId |-> IF sid \in DOMAIN b THEN b[sid].userId ELSE "",
                expiresAt |-> NewExpiry(t),
                createdAt |-> IF sid \in DOMAIN b THEN b[sid].createdAt ELSE t]
          ELSE b[k]]
refreshSession_db(d, b, sid, t) ==
  IF sid \in DOMAIN d THEN b
  ELSE IF sid \in DOMAIN b THEN [b EXCEPT ![sid].expiresAt = NewExpiry(t)]
  ELSE b

\* deleteUserSessions
deleteUserSessions_demo(d, userId) ==
  [k \in {x \in DOMAIN d : d[x].userId # userId} |-> d[k]]
deleteUserSessions_db_keep(b, userId) == b
deleteUserSessions_db(b, userId) ==
  [k \in {x \in DOMAIN b : b[x].userId # userId} |-> b[k]]

\* sqlite's datetime(): a time value rendered as YYYY-MM-DD HH:MM:SS, the
\* fraction of the second dropped
datetime(t) == t \div Second

\* a sweep whose comparison also takes the rows of the current second
cleanupExpiredSessions_db_eager(b, t) ==
  [k \in {x \in DOMAIN b : ~(datetime(b[x].expiresAt) <= datetime(t))} |-> b[k]]
\* cleanupExpiredSessions:
\* DELETE FROM sessions WHERE datetime(expires_at) < datetime('now')
cleanupExpiredSessions_db(b, t) ==
  [k \in {x \in DOMAIN b : ~(datetime(b[x].expiresAt) < datetime(t))} |-> b[k]]

\* the session part of authMiddleware for a session whose user exists:
\* getSession, and refreshSession when a session came back
auth_ret(d, b, sid, t) == getSession_ret(d, b, sid, t)
auth_demo(d, b, sid, t) ==
  IF getSession_ret(d, b, sid, t) = NULL THEN getSession_demo(d, sid, t)
  ELSE refreshSession_demo(getSession_demo(d, sid, t), sid, t)
auth_db(d, b, sid, t) ==
  IF getSession_ret(d, b, sid, t) = NULL THEN getSession_db(d, b, sid, t)
  ELSE refreshSession_db(d, getSession_db(d, b, sid, t), sid, t)

Stored(d, b, sid) == sid \in DOMAIN d \/ sid \in DOMAIN b

Ev(op, sid, ret, evicted) == [op |-> op, sid |-> sid, ret |-> ret, evicted |-> evicted]

\* --------------------------------------------------------------- users
AdminId == "admin"
RealUserIds == {AdminId, "u1"}
UserIds == RealUserIds \cup {DemoUserId}

\* ------------------------------------------------------------ ACLService
Devices == {"d1", "d2"}
Rooms == {"r1", "r2"}
\* device.roomId as reported by the device API
RoomOf(d) == IF d = "d1" THEN "r1" ELSE "r2"

\* the table is a bag of rows <<user_id, resource_type, resource_id>>: the
\* row id is a fresh uuid and granted_at a timestamp, neither is read back
Row(userId, resourceType, resourceId) == <<userId, resourceType, resourceId>>
MaxArgs == 2        \* length of the devices / rooms arrays of one setUserAccess call

\* the array a request body carries for a set of ids, in some order
RECURSIVE ArrayOf(_)
ArrayOf(S) == IF S = {} THEN << >>
              ELSE LET x == CHOOSE y \in S : TRUE IN <<x>> \o ArrayOf(S \ {x})

\* a plain INSERT: one more row, whatever the table holds
insert(a, row) == a (+) SetToBag({row})
\* INSERT OR IGNORE under UNIQUE(user_id, resource_type, resource_id) and the
\* foreign key to users(id): a row violating a constraint is not inserted
grantAccess_noUnique(a, us, userId, resourceType, resourceId) ==
  IF userId \notin DOMAIN us THEN a
  ELSE insert(a, Row(userId, resourceType, resourceId))
grantAccess(a, us, userId, resourceType, resourceId) ==
  IF userId \notin DOMAIN us \/ BagIn(Row(userId, resourceType, resourceId), a) THEN a
  ELSE insert(a, Row(userId, resourceType, resourceId))
\* DELETE ... WHERE user_id = ? AND resource_type = ? AND resource_id = ?
revokeAccess(a, userId, resourceType, resourceId) ==
  [e \in DOMAIN a \ {Row(userId, resourceType, resourceId)} |-> a[e]]
hasAccess(a, userId, resourceType, resourceId) ==
  BagIn(Row(userId, resourceType, resourceId), a)
getAccessibleDeviceIds(a, userId) == {d \in Devices : BagIn(Row(userId, "device", d), a)}
getAccessibleRoomIds(a, userId) == {r \in Rooms : BagIn(Row(userId, "room", r), a)}
removeAllUserAccess(a, userId) == [e \in {x \in DOMAIN a : x[1] # userId} |-> a[e]]
\* ids.forEach(id => grantAccess(userId, resourceType, id))
RECURSIVE grantEach(_, _, _, _, _)
grantEach(a, us, userId, resourceType, ids) ==
  IF ids = << >> THEN a
  ELSE grantEach(grantAccess(a, us, userId, resourceType, Head(ids)),
                 us, userId, resourceType, Tail(ids))
\* db.transaction(fn)(): BEGIN, fn, COMMIT; when fn throws or the process
\* stops before COMMIT the journal restores the table as it was at BEGIN
NoTx == [stage |-> "none"]
transaction_noRollback(a, work, committed) == work
transaction(a, work, committed) == IF committed THEN work ELSE a
\* the statements setUserAccess still has to run, in order
Todo(devices, rooms) ==
  [i \in 1..Len(devices) |-> <<"device", devices[i]>>]
    \o [i \in 1..Len(rooms) |-> <<"room", rooms[i]>>]
\* setUserAccess: one transaction, delete then INSERT OR IGNORE each grant
setUserAccess(a, us, userId, devices, rooms) ==
  grantEach(grantEach(removeAllUserAccess(a, userId), us, userId, "device", devices),
            us, userId, "room", rooms)

\* ----------------------------------------------------------- the pipeline
MaxReqs == 1        \* REST requests in flight at the same time
ReqIds == 1..MaxReqs
\* the slots of the requests: the race of two admins needs two requests in
\* flight, one more than the other specifications let in
ReqSlots == 1..(MaxReqs + 1)

NoUser == [id |-> "", role |-> "", firstLogin |-> FALSE]
DemoUser == [id |-> DemoUserId, role |-> "user", firstLogin |-> FALSE]
UserRecord(u) == [id |-> u, role |-> users[u].role, firstLogin |-> users[u].firstLogin]

Routes == {"logout", "me", "changePassword", "devices", "device",
           "adminCreateUser", "adminDeleteUser", "adminSetAccess",
           "adminUpdateRole", "command", "sceneExecute"}

\* the preHandler hooks registered for each route, in order
Chain(route) ==
  IF route \in {"logout", "me", "changePassword"} THEN <<"auth">>
  ELSE IF route \in {"device", "command"} THEN <<"auth", "firstLogin", "acl">>
  ELSE <<"auth", "firstLogin">>

\* where a request goes after hook number i of its chain returned normally
After(route, i) == IF i < Len(Chain(route)) THEN Chain(route)[i + 1] ELSE "handler"

Reply(status, error) == [status |-> status, error |-> error]
NoReply == Reply(0, "")
\* the body of a reply that carries no device list
NoList == {""}

\* one error text for a missing cookie and for an unknown session
authMiddleware_sameError(cookie, session) ==
  IF cookie = NoCookie \/ session = NULL
  THEN [pass |-> FALSE, reply |-> Reply(401, "Not authenticated"), user |-> NoUser]
  ELSE IF session.isDemoMode /\ session.userId = DemoUserId
  THEN [pass |-> TRUE, reply |-> NoReply, user |-> DemoUser]
  ELSE IF session.userId \notin DOMAIN users
  THEN [pass |-> FALSE, reply |-> Reply(401, "User not found"), user |-> NoUser]
  ELSE [pass |-> TRUE, reply |-> NoReply, user |-> UserRecord(session.userId)]

\* authMiddleware up to (not including) refreshSession: the decision taken
\* on the cookie, given the session getSession returned
authMiddleware(cookie, session) ==
  IF cookie = NoCookie
  THEN [pass |-> FALSE, reply |-> Reply(401, "Not authenticated"), user |-> NoUser]
  ELSE IF session = NULL
  THEN [pass |-> FALSE, reply |-> Reply(401, "Invalid or expired session"), user |-> NoUser]
  ELSE IF session.isDemoMode /\ session.userId = DemoUserId
  THEN [pass |-> TRUE, reply |-> NoReply, user |-> DemoUser]
  ELSE IF session.userId \notin DOMAIN users
  THEN [pass |-> FALSE, reply |-> Reply(401, "User not found"), user |-> NoUser]
  ELSE [pass |-> TRUE, reply |-> NoReply, user |-> UserRecord(session.userId)]

\* the first-login check left out
firstLoginMiddleware_off(user, route) == [pass |-> TRUE, reply |-> NoReply]

\* firstLoginMiddleware: request.user?.firstLogin && url !== change-password
firstLoginMiddleware(user, route) ==
  IF user.firstLogin /\ route # "changePassword"
  THEN [pass |-> FALSE, reply |-> Reply(403, "Password change required")]
  ELSE [pass |-> TRUE, reply |-> NoReply]

\* deviceACLMiddleware without the admin branch
deviceACLMiddleware_noAdmin(a, user, isDemoMode, deviceId) ==
  IF isDemoMode THEN [pass |-> TRUE, reply |-> NoReply]
  ELSE IF hasAccess(a, user.id, "device", deviceId) THEN [pass |-> TRUE, reply |-> NoReply]
  ELSE [pass |-> FALSE, reply |-> Reply(403, "Access denied")]

\* deviceACLMiddleware
deviceACLMiddleware(a, user, isDemoMode, deviceId) ==
  IF isDemoMode THEN [pass |-> TRUE, reply |-> NoReply]
  ELSE IF user.role = "admin" THEN [pass |-> TRUE, reply |-> NoReply]
  ELSE IF hasAccess(a, user.id, "device", deviceId) THEN [pass |-> TRUE, reply |-> NoReply]
  ELSE [pass |-> FALSE, reply |-> Reply(403, "Access denied")]

\* filterDevicesByACL
filterDevicesByACL(a, devices, userId, userRole) ==
  IF userRole = "admin" \/ userId = DemoUserId THEN devices
  ELSE {d \in devices : \/ d \in getAccessibleDeviceIds(a, userId)
                        \/ RoomOf(d) \in getAccessibleRoomIds(a, userId)}

\* auditMiddleware: when the reply is sent, a row is inserted for request.user
\* unless the url is skipped or the user is the demo user; the row references
\* users(id); q.auditOk = FALSE stands for any other reason the INSERT throws
auditAttempted(q) == q.user # NoUser /\ q.route # "me" /\ q.user.id # DemoUserId
auditInsert(au, us, q) ==
  IF auditAttempted(q) /\ q.user.id \in DOMAIN us /\ q.auditOk
  THEN au \cup {q.user.id} ELSE au
\* the overridden reply.send: the INSERT sits in try/catch, then
\* originalSend(payload) is called with what the handler passed
send_propagates(q, reply) ==
  IF auditAttempted(q) /\ ~q.auditOk THEN [status |-> 500, error |-> "Internal Server Error"]
  ELSE reply
send(q, reply) == reply

NewReq(cookie, route, deviceId) ==
  [cookie |-> cookie, route |-> route, deviceId |-> deviceId, pc |-> "auth",
   user |-> NoUser, sessionId |-> NoCookie, isDemoMode |-> FALSE,
   reply |-> NoReply, ran |-> << >>, list |-> NoList,
   handed |-> NoReply, auditOk |-> TRUE]

\* a slot no request occupies yet
IdleReq == [NewReq(NoCookie, "me", "") EXCEPT !.pc = "idle"]

\* ------------------------------------------------------- WebSocketService
MaxConns == 2       \* WebSocket objects alive at the same time
MaxInbox == 1       \* broadcast messages delivered to one connection
ConnIds == 1..MaxConns

\* optional booleans of AuthenticatedWebSocket: undefined until assigned
Undefined == "undefined"
Bool(b) == IF b THEN "true" ELSE "false"

\* a message on the wire; tag: for a device update the mode flag the
\* broadcast was issued with, for a user message the user id it was sent to
Msg(type, tag) == [type |-> type, tag |-> tag]
Connected == Msg("connected", "")
DeviceUpdate(isDemoMode) == Msg("device-update", Bool(isDemoMode))
UserMessage(userId) == Msg("message", userId)
NoMsg == Msg("", "")

\* a slot no WebSocket object occupies; sid: the sessionId parameter of a
\* handshake that was rejected; link: the state of the path to the peer
\* ("up", "stalled": the peer does not read, "broken": writes fail);
\* pending: the last frame queued that the peer has not taken
FreeConn ==
  [stage |-> "free", readyState |-> "CLOSED", sid |-> NoCookie, userId |-> "",
   isDemoMode |-> Undefined, isAlive |-> Undefined, closeCode |-> 0,
   inbox |-> << >>, missed |-> 0, link |-> "up", pending |-> NoMsg]

\* wss.clients holds a WebSocket from the upgrade until its 'close' event
InWss(conn) == conn.stage # "free" /\ conn.readyState # "CLOSED"

Registered(cl, c) == \E u \in DOMAIN cl : c \in cl[u]

\* a registration that also adds the connection to every set already there
register_all(cl, userId, c) ==
  [u \in DOMAIN cl \cup {userId} |->
     (IF u \in DOMAIN cl THEN cl[u] ELSE {}) \cup {c}]

\* lines 68-71: clients.get(userId).add(ws), creating the set when needed
register(cl, userId, c) ==
  [u \in DOMAIN cl \cup {userId} |->
     IF u = userId THEN (IF userId \in DOMAIN cl THEN cl[userId] ELSE {}) \cup {c}
     ELSE cl[u]]

\* a 'close' handler that removes the connection and keeps the key
unregister_keepKey(cl, userId, c) ==
  IF userId \notin DOMAIN cl THEN cl
  ELSE [cl EXCEPT ![userId] = @ \ {c}]

\* lines 91-97: the 'close' handler removes the connection and drops the
\* key when the set becomes empty
unregister(cl, userId, c) ==
  IF userId \notin DOMAIN cl THEN cl
  ELSE IF cl[userId] \ {c} = {} THEN [u \in DOMAIN cl \ {userId} |-> cl[u]]
  ELSE [cl EXCEPT ![userId] = @ \ {c}]

\* ws.send(data) on an OPEN socket: the frame is queued and the call returns;
\* a stalled peer leaves it in the buffer, a failed write raises the socket's
\* 'error' event, which destroys the socket and leaves the 'close' event
\* pending
wsSend(conn, m) ==
  IF conn.link = "up" THEN [conn EXCEPT !.inbox = Append(@, m)]
  ELSE IF conn.link = "broken" THEN [conn EXCEPT !.pending = m, !.readyState = "CLOSING"]
  ELSE [conn EXCEPT !.pending = m]

\* sendToClient / the readyState test before every send
sendToClient(conn, m) ==
  IF conn.readyState = "OPEN" THEN wsSend(conn, m) ELSE conn

\* what a client can send: text that is not JSON (or JSON without a type to
\* read), a message of a type the switch does not know, and the two types
\* it knows
MessageKinds == {"garbage", "unknown", "ping", "subscribe"}

\* the line the 'message' handler logs for a message of this kind
logged(kind) ==
  IF kind = "garbage" THEN "logger.error"
  ELSE IF kind = "unknown" THEN "logger.warn"
  ELSE "logger.debug"

\* a 'message' handler that counts any message as a sign of life
onMessage_alive(conn, kind) ==
  IF kind = "ping" THEN sendToClient([conn EXCEPT !.isAlive = "true"], Msg("pong", ""))
  ELSE IF kind = "subscribe"
  THEN sendToClient([conn EXCEPT !.isAlive = "true"], Msg("subscribed", ""))
  ELSE [conn EXCEPT !.isAlive = "true"]
\* lines 79-86 and handleMessage: JSON.parse inside try/catch, then the
\* switch on message.type
onMessage(conn, kind) ==
  IF kind = "ping" THEN sendToClient(conn, Msg("pong", ""))
  ELSE IF kind = "subscribe" THEN sendToClient(conn, Msg("subscribed", ""))
  ELSE conn

\* a forEach whose send throws at the first connection that does not take
\* the frame: the connections after it are not visited
forEachSend_abort(cs, targets, m) ==
  [c \in DOMAIN cs |->
     IF c \in targets /\ \A c2 \in targets : (c2 < c /\ cs[c2].readyState = "OPEN")
                                                => cs[c2].link = "up"
     THEN sendToClient(cs[c], m) ELSE cs[c]]
\* targets.forEach(ws => { if (ws.readyState === OPEN) ws.send(m) })
forEachSend(cs, targets, m) ==
  [c \in DOMAIN cs |-> IF c \in targets THEN sendToClient(cs[c], m) ELSE cs[c]]

\* the handshake's decision that rejects only a missing parameter
wsAuthenticate_noLookup(sid, session) ==
  IF sid = NoCookie THEN [ok |-> FALSE, code |-> 1008]
  ELSE [ok |-> TRUE, code |-> 0]

\* lines 38-49: the handshake's decision
wsAuthenticate(sid, session) ==
  IF sid = NoCookie THEN [ok |-> FALSE, code |-> 1008]
  ELSE IF session = NULL THEN [ok |-> FALSE, code |-> 1008]
  ELSE [ok |-> TRUE, code |-> 0]

\* a heartbeat that probes but never terminates
sweep_noTerminate(conn) ==
  [conn EXCEPT !.isAlive = "false", !.missed = @ + 1]

\* the heartbeat's visit of one member of wss.clients; missed counts the
\* visits since the connection was registered or last answered
sweep(conn) ==
  IF conn.isAlive = "false"
  THEN [conn EXCEPT !.readyState = "TERMINATED", !.missed = @ + 1]
  ELSE [conn EXCEPT !.isAlive = "false", !.missed = @ + 1]

\* broadcastDeviceUpdate without the mode test
broadcastDeviceUpdate_all(cs, isDemoMode) ==
  forEachSend(cs, {c \in DOMAIN cs : InWss(cs[c])}, DeviceUpdate(isDemoMode))

\* broadcastDeviceUpdate: over wss.clients, same mode and OPEN
broadcastDeviceUpdate(cs, isDemoMode) ==
  forEachSend(cs, {c \in DOMAIN cs : InWss(cs[c]) /\ cs[c].isDemoMode = Bool(isDemoMode)},
              DeviceUpdate(isDemoMode))

\* a broadcastToUser that does not look the user up in the registry
broadcastToUser_all(cl, cs, userId) ==
  forEachSend(cs, {c \in DOMAIN cs : InWss(cs[c])}, UserMessage(userId))

\* broadcastToUser: over the registry entry of the user, if there is one
broadcastToUser(cl, cs, userId) ==
  IF userId \notin DOMAIN cl THEN cs
  ELSE forEachSend(cs, cl[userId], UserMessage(userId))

\* broadcastToAll: over wss.clients, OPEN
AllMessage == Msg("message", "all")
broadcastToAll(cs) == forEachSend(cs, {c \in DOMAIN cs : InWss(cs[c])}, AllMessage)

\* broadcast messages a connection has received
Broadcasts(conn) == Len(SelectSeq(conn.inbox, LAMBDA m : m # Connected))

\* ------------------------------------------- WebSocketClient (the browser)
MaxSocks == 2       \* WebSocket objects of the client that still deliver events
MaxTimers == 2      \* reconnect timers pending at the same time
SockIds == 1..MaxSocks
TimerIds == 1..MaxTimers

maxReconnectAttempts == 10
maxReconnectDelay == 30000
InitialReconnectDelay == 1000
\* delays are held in units of 1/2^10 ms, which keeps 1.5^n integral for
\* every n up to maxReconnectAttempts
Ms(x) == x * 2^maxReconnectAttempts
Min(x, y) == IF x <= y THEN x ELSE y

\* fields of WebSocketClient; ws and reconnectTimeout are 0 for null; socks
\* and timers are the browser's sockets and timers that can still call back;
\* sinceOpen is history: timers set since the last open event
NewClient ==
  [ws |-> 0, socks |-> [s \in SockIds |-> "none"],
   reconnectTimeout |-> 0, timers |-> [t \in TimerIds |-> 0],
   reconnectAttempts |-> 0, reconnectDelay |-> InitialReconnectDelay,
   isConnected |-> FALSE, shouldReconnect |-> TRUE, sinceOpen |-> 0]

FreeSock(c) == CHOOSE s \in SockIds : c.socks[s] = "none" /\ \A s2 \in SockIds : s2 < s => c.socks[s2] # "none"
FreeTimer(c) == CHOOSE t \in TimerIds : c.timers[t] = 0 /\ \A t2 \in TimerIds : t2 < t => c.timers[t2] # 0
HasFreeSock(c) == \E s \in SockIds : c.socks[s] = "none"
HasFreeTimer(c) == \E t \in TimerIds : c.timers[t] = 0
IsOpen(c) == c.ws # 0 /\ c.socks[c.ws] = "open"

\* Math.min(reconnectDelay * Math.pow(1.5, reconnectAttempts), maxReconnectDelay)
backoff(reconnectDelay, attempts) ==
  Min(reconnectDelay * 3^attempts * 2^(maxReconnectAttempts - attempts),
      Ms(maxReconnectDelay))

\* scheduleReconnect
scheduleReconnect(c) ==
  IF ~c.shouldReconnect THEN c
  ELSE IF c.reconnectAttempts >= maxReconnectAttempts THEN c
  ELSE LET n == c.reconnectAttempts + 1
           t == FreeTimer(c)
       IN [c EXCEPT !.reconnectAttempts = n,
                    !.timers[t] = backoff(c.reconnectDelay, n),
                    !.reconnectTimeout = t]

\* connect(): returns at once when the current socket is OPEN
connect(c) ==
  IF IsOpen(c) THEN c
  ELSE [c EXCEPT !.shouldReconnect = TRUE, !.ws = FreeSock(c),
                 !.socks[FreeSock(c)] = "connecting"]

\* ws.onopen
onopen_noReset(c, s) == [c EXCEPT !.socks[s] = "open", !.isConnected = TRUE]
onopen(c, s) ==
  [c EXCEPT !.socks[s] = "open", !.isConnected = TRUE, !.reconnectAttempts = 0,
            !.reconnectDelay = InitialReconnectDelay]

\* ws.onclose; a reference to a CLOSED socket behaves as null in every test
\* the client makes, so this.ws is cleared with the socket it refers to
onclose(c, s) ==
  scheduleReconnect([c EXCEPT !.socks[s] = "none", !.isConnected = FALSE,
                              !.ws = IF c.ws = s THEN 0 ELSE c.ws])

\* disconnect(): clearTimeout of the last timer set, close() of the current
\* socket, whose close event arrives later
disconnect(c) ==
  [c EXCEPT !.shouldReconnect = FALSE,
            !.timers = [t \in TimerIds |-> IF t = c.reconnectTimeout THEN 0 ELSE c.timers[t]],
            !.reconnectTimeout = 0,
            !.socks = [s \in SockIds |-> IF s = c.ws THEN "closing" ELSE c.socks[s]],
            !.ws = 0, !.isConnected = FALSE]

\* ---------------------------------------------------------------- the process
\* after start(): the listener accepts, the heartbeat interval is set
Started == [listening |-> TRUE, heartbeat |-> TRUE, exited |-> FALSE]

\* --------------------------------------------------------------- initial state
\* after initSchema() and UserService.initializeAdminUser(): the bootstrap
\* admin with first_login = 1, nothing else
Init ==
  /\ now = 0
  /\ nextId = 1
  /\ demoSessions = << >>
  /\ dbSessions = << >>
  /\ touchedAt = [sid \in SessionIds |-> 0]
  /\ last = Ev("init", 0, NULL, FALSE)
  /\ users = [u \in {AdminId} |-> [role |-> "admin", firstLogin |-> TRUE]]
  /\ everUsers = {AdminId}
  /\ acl = EmptyBag
  /\ tx = NoTx
  /\ wsClient = NewClient
  /\ server = Started
  /\ audit = {}
  /\ reqs = [r \in ReqSlots |-> IdleReq]
  /\ conns = [c \in ConnIds |-> FreeConn]
  /\ clients = << >>

\* ------------------------------------------------------------------ clock
Tick ==
  /\ now < MaxTime
  /\ now' = now + 1
  /\ last' = Ev("tick", 0, NULL, FALSE)
  /\ UNCHANGED <<nextId, demoSessions, dbSessions, touchedAt, dbVars, reqs, hubVars, wsClient, server>>

\* ------------------------------------------ SessionService called directly
\* the sessions table has FOREIGN KEY (user_id) REFERENCES users(id): a
\* durable session can only be inserted for an existing user
CreateSession(userId, isDemoMode) ==
  /\ nextId <= MaxSessions
  /\ isDemoMode \/ userId \in DOMAIN users
  /\ demoSessions' = createSession_demo(demoSessions, nextId, userId, isDemoMode, now)
  /\ dbSessions' = createSession_db(dbSessions, nextId, userId, isDemoMode, now)
  /\ touchedAt' = [touchedAt EXCEPT ![nextId] = now]
  /\ nextId' = nextId + 1
  /\ last' = Ev("createSession", nextId,
               [id |-> nextId, userId |-> userId, expiresAt |-> NewExpiry(now),
                createdAt |-> now, isDemoMode |-> isDemoMode], FALSE)
  /\ UNCHANGED <<now, dbVars, reqs, hubVars, wsClient, server>>

GetSession(sid) ==
  /\ demoSessions' = getSession_demo(demoSessions, sid, now)
  /\ dbSessions' = getSession_db(demoSessions, dbSessions, sid, now)
  /\ last' = Ev("getSession", sid, getSession_ret(demoSessions, dbSessions, sid, now),
               Stored(demoSessions, dbSessions, sid)
                 /\ ~Stored(demoSessions', dbSessions', sid))
  /\ UNCHANGED <<now, nextId, touchedAt, dbVars, reqs, hubVars, wsClient, server>>

RefreshSession(sid) ==
  /\ demoSessions' = refreshSession_demo(demoSessions, sid, now)
  /\ dbSessions' = refreshSession_db(demoSessions, dbSessions, sid, now)
  /\ touchedAt' = IF Stored(demoSessions, dbSessions, sid)
                  THEN [touchedAt EXCEPT ![sid] = now] ELSE touchedAt
  /\ last' = Ev("refreshSession", sid, NULL, FALSE)
  /\ UNCHANGED <<now, nextId, dbVars, reqs, hubVars, wsClient, server>>

DeleteSession(sid) ==
  /\ demoSessions' = deleteSession_demo(demoSessions, sid)
  /\ dbSessions' = deleteSession_db(demoSessions, dbSessions, sid)
  /\ last' = Ev("deleteSession", sid, NULL, FALSE)
  /\ UNCHANGED <<now, nextId, touchedAt, dbVars, reqs, hubVars, wsClient, server>>

DeleteUserSessions(userId) ==
  /\ demoSessions' = deleteUserSessions_demo(demoSessions, userId)
  /\ dbSessions' = deleteUserSessions_db(dbSessions, userId)
  /\ last' = Ev("deleteUserSessions", 0, NULL, FALSE)
  /\ UNCHANGED <<now, nextId, touchedAt, dbVars, reqs, hubVars, wsClient, server>>

\* the setInterval job of session.service.ts
CleanupExpiredSessions ==
  /\ dbSessions' = cleanupExpiredSessions_db(dbSessions, now)
  /\ last' = Ev("cleanupExpiredSessions", 0, NULL, FALSE)
  /\ UNCHANGED <<now, nextId, demoSessions, touchedAt, dbVars, reqs, hubVars, wsClient, server>>

\* a request passes the session part of authMiddleware (lines 20-53)
Touch(sid) ==
  /\ demoSessions' = auth_demo(demoSessions, dbSessions, sid, now)
  /\ dbSessions' = auth_db(demoSessions, dbSessions, sid, now)
  /\ touchedAt' = IF auth_ret(demoSessions, dbSessions, sid, now) # NULL
                  THEN [touchedAt EXCEPT ![sid] = now] ELSE touchedAt
  /\ last' = Ev("auth", sid, auth_ret(demoSessions, dbSessions, sid, now),
               Stored(demoSessions, dbSessions, sid)
                 /\ ~Stored(demoSessions', dbSessions', sid))
  /\ UNCHANGED <<now, nextId, dbVars, reqs, hubVars, wsClient, server>>

\* the session store as the running server drives it: login, requests
\* through authMiddleware, WebSocket handshakes (getSession alone), logout,
\* and the periodic sweep
NextSweep ==
  \/ Tick
  \/ \E u \in {AdminId, DemoUserId} : CreateSession(u, u = DemoUserId)
  \/ \E sid \in Tokens : GetSession(sid)
  \/ \E sid \in Tokens : Touch(sid)
  \/ \E sid \in Tokens : DeleteSession(sid)
  \/ CleanupExpiredSessions

SpecSweep == Init /\ [][NextSweep]_vars

NextSession ==
  \/ Tick
  \/ \E u \in UserIds, m \in BOOLEAN : CreateSession(u, m)
  \/ \E sid \in Tokens : GetSession(sid)
  \/ \E sid \in Tokens : RefreshSession(sid)
  \/ \E sid \in Tokens : DeleteSession(sid)
  \/ \E u \in UserIds : DeleteUserSessions(u)
  \/ CleanupExpiredSessions

SpecSession == Init /\ [][NextSession]_vars


\* a reply has been sent: what stays of the request is the cookie it carried,
\* the reply and the hooks that ran
Done(q, reply, step) ==
  [IdleReq EXCEPT !.pc = "done", !.cookie = q.cookie, !.reply = send(q, reply),
                  !.handed = reply, !.auditOk = q.auditOk,
                  !.ran = Append(q.ran, step)]

\* the route handler has produced its reply
Finish(q, reply) == Done(q, reply, "handler")

\* a request arrives and runs hook 1, authMiddleware.  The cookie is
\* absent, forged, or an id issued earlier.  The slots carry no meaning: the
\* request takes the lowest one that is free.
AuthGate(r, cookie, route, deviceId) ==
  /\ reqs[r].pc \in {"idle", "done"}
  /\ \A r2 \in ReqIds : r2 < r => reqs[r2].pc \notin {"idle", "done"}
  /\ cookie \in {NoCookie, BogusId} \/ (cookie \in SessionIds /\ cookie < nextId)
  /\ (route \in {"device", "command"}) = (deviceId \in Devices)
  /\ LET q == NewReq(cookie, route, deviceId)
         session == IF q.cookie = NoCookie THEN NULL
                    ELSE getSession_ret(demoSessions, dbSessions, q.cookie, now)
         d1 == IF q.cookie = NoCookie THEN demoSessions
               ELSE getSession_demo(demoSessions, q.cookie, now)
         b1 == IF q.cookie = NoCookie THEN dbSessions
               ELSE getSession_db(demoSessions, dbSessions, q.cookie, now)
         res == authMiddleware(q.cookie, session)
     IN IF res.pass
        THEN /\ demoSessions' = refreshSession_demo(d1, q.cookie, now)
             /\ dbSessions' = refreshSession_db(d1, b1, q.cookie, now)
             /\ touchedAt' = [touchedAt EXCEPT ![q.cookie] = now]
             /\ reqs' = [reqs EXCEPT ![r] =
                  [q EXCEPT !.user = res.user, !.sessionId = q.cookie,
                            !.isDemoMode = session.isDemoMode,
                            !.ran = Append(q.ran, "auth"),
                            !.pc = After(q.route, 1)]]
             /\ UNCHANGED audit
        ELSE /\ demoSessions' = d1
             /\ dbSessions' = b1
             /\ touchedAt' = touchedAt
             /\ reqs' = [reqs EXCEPT ![r] = Done(q, res.reply, "auth")]
             /\ audit' = auditInsert(audit, users, q)
  /\ UNCHANGED <<now, nextId, last, tx, users, everUsers, acl, hubVars, wsClient, server>>

\* hook 2: firstLoginMiddleware
FirstLoginGate(r) ==
  /\ reqs[r].pc = "firstLogin"
  /\ LET q == reqs[r]
         res == firstLoginMiddleware(q.user, q.route)
     IN IF res.pass
        THEN /\ reqs' = [reqs EXCEPT ![r] =
                  [q EXCEPT !.ran = Append(q.ran, "firstLogin"), !.pc = After(q.route, 2)]]
             /\ UNCHANGED audit
        ELSE /\ reqs' = [reqs EXCEPT ![r] = Done(q, res.reply, "firstLogin")]
             /\ audit' = auditInsert(audit, users, q)
  /\ UNCHANGED <<sessionVars, last, tx, users, everUsers, acl, hubVars, wsClient, server>>

\* hook 3 of the per-device routes: deviceACLMiddleware
ACLGate(r) ==
  /\ reqs[r].pc = "acl"
  /\ LET q == reqs[r]
         res == deviceACLMiddleware(acl, q.user, q.isDemoMode, q.deviceId)
     IN IF res.pass
        THEN /\ reqs' = [reqs EXCEPT ![r] =
                  [q EXCEPT !.ran = Append(q.ran, "acl"), !.pc = After(q.route, 3)]]
             /\ UNCHANGED audit
        ELSE /\ reqs' = [reqs EXCEPT ![r] = Done(q, res.reply, "acl")]
             /\ audit' = auditInsert(audit, users, q)
  /\ UNCHANGED <<sessionVars, last, tx, users, everUsers, acl, hubVars, wsClient, server>>

AtHandler(r, route) ==
  reqs[r].pc = "handler" /\ reqs[r].route = route

\* POST /api/auth/login; usernames are identified with user ids, the name
\* 'demo' with DemoUserId; pwOk is the outcome of the password comparison
\* UserService.authenticate: the user whose name and password match, or none
authenticate_noPassword(us, u, pwOk) == IF u \in DOMAIN us THEN u ELSE ""
authenticate(us, u, pwOk) == IF u \in DOMAIN us /\ pwOk THEN u ELSE ""

\* what POST /login answers: the status, the user of the body, the sessionId
\* of the body and the sessionId cookie (NoCookie where there is none)
LoginResponse(status, userId, sessionId, cookie) ==
  [status |-> status, userId |-> userId, sessionId |-> sessionId, cookie |-> cookie]
\* history: a login request and its response
LoginCall(u, bodyOk, pwOk, response) ==
  [op |-> "login", account |-> u, bodyOk |-> bodyOk, pwOk |-> pwOk,
   status |-> response.status, userId |-> response.userId,
   sessionId |-> response.sessionId, cookie |-> response.cookie]

\* POST /api/auth/login with the credentials of account u; bodyOk: the body
\* passes loginSchema; pwOk: the password is the one of the account
Login(u, bodyOk, pwOk) ==
  /\ nextId <= MaxSessions
  /\ LET demo == bodyOk /\ u = DemoUserId /\ pwOk
         who == IF demo THEN DemoUserId
                ELSE IF bodyOk THEN authenticate(users, u, pwOk) ELSE ""
     IN IF who # ""
        THEN /\ demoSessions' = createSession_demo(demoSessions, nextId, who, demo, now)
             /\ dbSessions' = createSession_db(dbSessions, nextId, who, demo, now)
             /\ touchedAt' = [touchedAt EXCEPT ![nextId] = now]
             /\ nextId' = nextId + 1
             /\ last' = LoginCall(u, bodyOk, pwOk, LoginResponse(200, who, nextId, nextId))
        ELSE /\ UNCHANGED <<demoSessions, dbSessions, touchedAt, nextId>>
             /\ last' = LoginCall(u, bodyOk, pwOk,
                  LoginResponse(IF bodyOk THEN 401 ELSE 400, "", NoCookie, NoCookie))
  /\ UNCHANGED <<now, dbVars, reqs, hubVars, wsClient, server>>

\* POST /api/auth/logout
HandleLogout(r) ==
  /\ AtHandler(r, "logout")
  /\ LET q == reqs[r] IN
       /\ demoSessions' = deleteSession_demo(demoSessions, q.sessionId)
       /\ dbSessions' = deleteSession_db(demoSessions, dbSessions, q.sessionId)
       /\ reqs' = [reqs EXCEPT ![r] = Finish(q, Reply(200, ""))]
       /\ audit' = auditInsert(audit, users, q)
  /\ UNCHANGED <<now, nextId, touchedAt, last, tx, users, everUsers, acl, hubVars, wsClient, server>>

\* GET /api/auth/me
HandleMe(r) ==
  /\ AtHandler(r, "me")
  /\ reqs' = [reqs EXCEPT ![r] = Finish(reqs[r], Reply(200, ""))]
  /\ audit' = auditInsert(audit, users, reqs[r])
  /\ UNCHANGED <<sessionVars, last, tx, users, everUsers, acl, hubVars, wsClient, server>>

\* UserService.changePassword: UPDATE users SET first_login = 0 WHERE id = ?
\* a changePassword that creates the row it does not find
changePassword_upsert(us, userId) ==
  [u \in DOMAIN us \cup {userId} |->
     IF u = userId THEN [role |-> "user", firstLogin |-> FALSE] ELSE us[u]]

\* UserService.changePassword: UPDATE users ... WHERE id = ?
changePassword(us, userId) ==
  IF userId \in DOMAIN us THEN [us EXCEPT ![userId].firstLogin = FALSE] ELSE us

\* POST /api/auth/change-password; bodyOk: the body passes the schema,
\* hasCurrent: currentPassword is present, pwOk: UserService.authenticate
\* finds a row with request.user.username whose hash matches.  The demo
\* identity is looked up under the name 'demo', which a real user may bear.
HandleChangePassword(r, bodyOk, hasCurrent, pwOk) ==
  /\ AtHandler(r, "changePassword")
  /\ LET q == reqs[r]
         reply == IF ~bodyOk THEN Reply(400, "Invalid request")
                  ELSE IF ~q.user.firstLogin /\ ~hasCurrent
                  THEN Reply(400, "Current password is required")
                  ELSE IF ~q.user.firstLogin
                          /\ ~((q.user.id \in DOMAIN users \/ q.user.id = DemoUserId) /\ pwOk)
                  THEN Reply(401, "Current password is incorrect")
                  ELSE Reply(200, "")
     IN /\ users' = IF reply.status = 200 THEN changePassword(users, q.user.id) ELSE users
        /\ reqs' = [reqs EXCEPT ![r] = Finish(q, reply)]
        /\ audit' = auditInsert(audit, users, q)
  /\ UNCHANGED <<sessionVars, last, tx, everUsers, acl, hubVars, wsClient, server>>

\* GET /api/devices; ok: the call to the device API succeeded
HandleDevices(r, ok) ==
  /\ AtHandler(r, "devices")
  /\ LET q == reqs[r] IN
       /\ reqs' = [reqs EXCEPT ![r] =
            IF ok THEN [Finish(q, Reply(200, "")) EXCEPT
                          !.list = filterDevicesByACL(acl, Devices, q.user.id, q.user.role)]
            ELSE Finish(q, Reply(500, "Failed to fetch devices"))]
       /\ audit' = auditInsert(audit, users, q)
  /\ UNCHANGED <<sessionVars, last, tx, users, everUsers, acl, hubVars, wsClient, server>>

\* GET /api/devices/:deviceId
HandleDevice(r, ok) ==
  /\ AtHandler(r, "device")
  /\ LET q == reqs[r] IN
       /\ reqs' = [reqs EXCEPT ![r] =
            IF ok THEN Finish(q, Reply(200, ""))
            ELSE Finish(q, Reply(500, "Failed to fetch device"))]
       /\ audit' = auditInsert(audit, users, q)
  /\ UNCHANGED <<sessionVars, last, tx, users, everUsers, acl, hubVars, wsClient, server>>

\* the checks every admin handler starts with
adminGuard(q) ==
  IF q.isDemoMode THEN Reply(403, "Demo mode is read-only")
  ELSE IF q.user.role # "admin" THEN Reply(403, "Admin access required")
  ELSE NoReply

\* POST /api/admin/users; createUser inserts with first_login = 0
HandleAdminCreateUser(r, newId, role) ==
  /\ AtHandler(r, "adminCreateUser")
  /\ newId \in RealUserIds \ everUsers
  /\ LET q == reqs[r] IN
       IF adminGuard(q) # NoReply
       THEN /\ reqs' = [reqs EXCEPT ![r] = Finish(q, adminGuard(q))]
            /\ UNCHANGED <<users, everUsers>>
       ELSE /\ users' = [k \in DOMAIN users \cup {newId} |->
                          IF k = newId THEN [role |-> role, firstLogin |-> FALSE]
                          ELSE users[k]]
            /\ everUsers' = everUsers \cup {newId}
            /\ reqs' = [reqs EXCEPT ![r] = Finish(q, Reply(200, ""))]
  /\ audit' = auditInsert(audit, users, reqs[r])
  /\ UNCHANGED <<sessionVars, last, tx, acl, hubVars, wsClient, server>>

\* DELETE /api/admin/users/:userId.  DELETE FROM users cascades to sessions
\* and access_control; audit_logs.user_id references users(id) without a
\* cascade, so the statement throws while the user owns audit rows
HandleAdminDeleteUser(r, target) ==
  /\ AtHandler(r, "adminDeleteUser")
  /\ LET q == reqs[r]
         reply == IF adminGuard(q) # NoReply THEN adminGuard(q)
                  ELSE IF target = q.user.id THEN Reply(400, "Cannot delete yourself")
                  ELSE IF target \notin DOMAIN users THEN Reply(404, "User not found")
                  ELSE IF target \in audit THEN Reply(500, "Internal server error")
                  ELSE Reply(200, "")
     IN /\ reqs' = [reqs EXCEPT ![r] = Finish(q, reply)]
        /\ IF reply.status = 200
           THEN /\ users' = Remove(users, target)
                /\ dbSessions' = deleteUserSessions_db(dbSessions, target)
                /\ acl' = removeAllUserAccess(acl, target)
           ELSE UNCHANGED <<users, dbSessions, acl>>
        /\ audit' = auditInsert(audit, users', q)
  /\ UNCHANGED <<now, nextId, demoSessions, touchedAt, last, tx, everUsers, hubVars, wsClient, server>>

\* PUT /api/admin/users/:userId/access
HandleAdminSetAccess(r, target, devices, rooms) ==
  /\ AtHandler(r, "adminSetAccess")
  /\ LET q == reqs[r]
         reply == IF adminGuard(q) # NoReply THEN adminGuard(q)
                  ELSE IF target \notin DOMAIN users THEN Reply(404, "User not found")
                  ELSE IF users[target].role = "admin"
                  THEN Reply(400, "Cannot set access control for admin users")
                  ELSE Reply(200, "")
     IN /\ reqs' = [reqs EXCEPT ![r] = Finish(q, reply)]
        /\ acl' = IF reply.status = 200 THEN setUserAccess(acl, users, target, ArrayOf(devices), ArrayOf(rooms))
                  ELSE acl
        /\ audit' = auditInsert(audit, users, q)
  /\ UNCHANGED <<sessionVars, last, tx, users, everUsers, hubVars, wsClient, server>>

\* UserService.updateUserRole
updateUserRole(us, userId, role) == [us EXCEPT ![userId].role = role]

\* PATCH /api/admin/users/:userId/role
HandleAdminUpdateRole(r, target, role) ==
  /\ AtHandler(r, "adminUpdateRole")
  /\ LET q == reqs[r]
         reply == IF adminGuard(q) # NoReply THEN adminGuard(q)
                  ELSE IF target = q.user.id THEN Reply(400, "Cannot change your own role")
                  ELSE IF target \notin DOMAIN users THEN Reply(404, "User not found")
                  ELSE Reply(200, "")
     IN /\ reqs' = [reqs EXCEPT ![r] = Finish(q, reply)]
        /\ users' = IF reply.status = 200 THEN updateUserRole(users, target, role)
                    ELSE users
        /\ audit' = auditInsert(audit, users, q)
  /\ UNCHANGED <<sessionVars, last, tx, everUsers, acl, hubVars, wsClient, server>>

\* the routes each specification sends requests to
PipelineRoutes == Routes \ {"adminSetAccess", "adminUpdateRole", "command", "sceneExecute"}
ACLRoutes == {"changePassword", "devices", "device", "adminCreateUser", "adminSetAccess",
              "adminUpdateRole"}
SlidingRoutes == {"me", "logout"}

\* the pipeline without the clock: sessions end by logout or user removal
NextPipeline ==
  \/ \E u \in UserIds, pwOk \in BOOLEAN : Login(u, TRUE, pwOk)
  \/ \E r \in ReqIds, c \in Tokens, route \in PipelineRoutes,
        d \in Devices \cup {""} : AuthGate(r, c, route, d)
  \/ \E r \in ReqIds : FirstLoginGate(r)
  \/ \E r \in ReqIds : ACLGate(r)
  \/ \E r \in ReqIds : HandleLogout(r)
  \/ \E r \in ReqIds : HandleMe(r)
  \/ \E r \in ReqIds, bodyOk, hasCurrent, pwOk \in BOOLEAN :
       HandleChangePassword(r, bodyOk, hasCurrent, pwOk)
  \/ \E r \in ReqIds, ok \in BOOLEAN : HandleDevices(r, ok)
  \/ \E r \in ReqIds, ok \in BOOLEAN : HandleDevice(r, ok)
  \/ \E r \in ReqIds, u \in RealUserIds : HandleAdminCreateUser(r, u, "user")
  \/ \E r \in ReqIds, u \in RealUserIds : HandleAdminDeleteUser(r, u)

SpecPipeline == Init /\ [][NextPipeline]_vars

\* the admin routes with two requests in flight: users log in, the bootstrap
\* admin changes the password, a second admin is created, and admins delete
\* users and change roles
AdminRoutes == {"changePassword", "adminCreateUser", "adminDeleteUser", "adminUpdateRole"}

NextAdmins ==
  \/ \E u \in RealUserIds : Login(u, TRUE, TRUE)
  \/ \E r \in ReqSlots, c \in SessionIds, route \in AdminRoutes : AuthGate(r, c, route, "")
  \/ \E r \in ReqSlots : FirstLoginGate(r)
  \/ \E r \in ReqSlots : HandleChangePassword(r, TRUE, TRUE, TRUE)
  \/ \E r \in ReqSlots : HandleAdminCreateUser(r, "u1", "admin")
  \/ \E r \in ReqSlots, u \in RealUserIds : HandleAdminDeleteUser(r, u)
  \/ \E r \in ReqSlots, u \in RealUserIds : HandleAdminUpdateRole(r, u, "user")

SpecAdmins == Init /\ [][NextAdmins]_vars

\* the pipeline with the access-control table being edited by the admin;
\* requests carry the cookie of a login and the handlers' other inputs are valid
NextACL ==
  \/ \E u \in UserIds : Login(u, TRUE, TRUE)
  \/ \E r \in ReqIds, c \in SessionIds, route \in ACLRoutes,
        d \in Devices \cup {""} : AuthGate(r, c, route, d)
  \/ \E r \in ReqIds : FirstLoginGate(r)
  \/ \E r \in ReqIds : ACLGate(r)
  \/ \E r \in ReqIds : HandleChangePassword(r, TRUE, FALSE, TRUE)
  \/ \E r \in ReqIds : HandleDevices(r, TRUE)
  \/ \E r \in ReqIds : HandleDevice(r, TRUE)
  \/ \E r \in ReqIds : HandleAdminCreateUser(r, "u1", "user")
  \/ \E r \in ReqIds, ds \in SUBSET Devices, rs \in SUBSET {"r1"} :
       HandleAdminSetAccess(r, "u1", ds, rs)
  \/ \E r \in ReqIds, role \in {"admin", "user"} : HandleAdminUpdateRole(r, "u1", role)

SpecACL == Init /\ [][NextACL]_vars

\* the authenticate gate under the clock: sessions expire and slide
NextSliding ==
  \/ Tick
  \/ \E u \in UserIds, pwOk \in BOOLEAN : Login(u, TRUE, pwOk)
  \/ \E r \in ReqIds, c \in Tokens, route \in SlidingRoutes : AuthGate(r, c, route, "")
  \/ \E r \in ReqIds : HandleLogout(r)
  \/ \E r \in ReqIds : HandleMe(r)

SpecSliding == Init /\ [][NextSliding]_vars

\* ------------------------------------------------ ACLService called directly
\* the arrays a caller may pass: duplicates and any order allowed
Arrays(S) == UNION {[1..n -> S] : n \in 0..MaxArgs}
Kinds == {"device", "room"}
Resources(k) == IF k = "device" THEN Devices ELSE Rooms

\* history: the last ACLService call and whether the row it names was stored
Call(op, existed) == [op |-> op, existed |-> existed]

\* UserService.createUser / deleteUser, as the admin routes call them
CreateUser(newId, role) ==
  /\ tx = NoTx
  /\ newId \in RealUserIds \ everUsers
  /\ users' = [k \in DOMAIN users \cup {newId} |->
                IF k = newId THEN [role |-> role, firstLogin |-> FALSE] ELSE users[k]]
  /\ everUsers' = everUsers \cup {newId}
  /\ UNCHANGED <<sessionVars, last, acl, tx, audit, reqs, hubVars, wsClient, server>>

\* a deleteUser that also drops the user's entry of the hub's registry
DeleteUser_disconnect(target) ==
  /\ tx = NoTx
  /\ target \in DOMAIN users \ {AdminId}
  /\ target \notin audit
  /\ users' = Remove(users, target)
  /\ dbSessions' = deleteUserSessions_db(dbSessions, target)
  /\ acl' = removeAllUserAccess(acl, target)
  /\ clients' = Remove(clients, target)
  /\ UNCHANGED <<now, nextId, demoSessions, touchedAt, last, everUsers, tx, audit,
                 reqs, conns, wsClient, server>>

DeleteUser(target) ==
  /\ tx = NoTx
  /\ target \in DOMAIN users \ {AdminId}
  /\ target \notin audit
  /\ users' = Remove(users, target)
  /\ dbSessions' = deleteUserSessions_db(dbSessions, target)
  /\ acl' = removeAllUserAccess(acl, target)
  /\ UNCHANGED <<now, nextId, demoSessions, touchedAt, last, everUsers, tx, audit,
                 reqs, hubVars, wsClient, server>>

GrantAccess(userId, resourceType, resourceId) ==
  /\ tx = NoTx
  /\ acl' = grantAccess(acl, users, userId, resourceType, resourceId)
  /\ last' = Call("grantAccess", hasAccess(acl, userId, resourceType, resourceId))
  /\ UNCHANGED <<sessionVars, users, everUsers, tx, audit, reqs, hubVars, wsClient, server>>

RevokeAccess(userId, resourceType, resourceId) ==
  /\ tx = NoTx
  /\ acl' = revokeAccess(acl, userId, resourceType, resourceId)
  /\ last' = Call("revokeAccess", hasAccess(acl, userId, resourceType, resourceId))
  /\ UNCHANGED <<sessionVars, users, everUsers, tx, audit, reqs, hubVars, wsClient, server>>

\* setUserAccess, statement by statement.  BEGIN and the DELETE:
BeginSetUserAccess(userId, devices, rooms) ==
  /\ tx = NoTx
  /\ tx' = [stage |-> "open", userId |-> userId, devices |-> devices, rooms |-> rooms,
            work |-> removeAllUserAccess(acl, userId), todo |-> Todo(devices, rooms)]
  /\ UNCHANGED <<sessionVars, last, users, everUsers, acl, audit, reqs, hubVars, wsClient, server>>

\* one grantAccess inside the transaction; the insert of a row for a user
\* that does not exist violates the foreign key and throws, which ends the
\* transaction with a rollback
TxGrant ==
  /\ tx.stage = "open" /\ tx.todo # << >>
  /\ IF tx.userId \in DOMAIN users
     THEN /\ tx' = [tx EXCEPT !.todo = Tail(tx.todo),
                              !.work = grantAccess(tx.work, users, tx.userId,
                                                   Head(tx.todo)[1], Head(tx.todo)[2])]
          /\ UNCHANGED acl
     ELSE /\ tx' = NoTx
          /\ acl' = transaction(acl, tx.work, FALSE)
  /\ UNCHANGED <<sessionVars, last, users, everUsers, audit, reqs, hubVars, wsClient, server>>

\* COMMIT after the last statement
TxCommit ==
  /\ tx.stage = "open" /\ tx.todo = << >>
  /\ acl' = transaction(acl, tx.work, TRUE)
  /\ tx' = NoTx
  /\ UNCHANGED <<sessionVars, last, users, everUsers, audit, reqs, hubVars, wsClient, server>>

\* the process stops before COMMIT
TxInterrupt ==
  /\ tx.stage = "open"
  /\ acl' = transaction(acl, tx.work, FALSE)
  /\ tx' = NoTx
  /\ UNCHANGED <<sessionVars, last, users, everUsers, audit, reqs, hubVars, wsClient, server>>

NextACLService ==
  \/ \E role \in {"admin", "user"} : CreateUser("u1", role)
  \/ DeleteUser("u1")
  \/ \E u \in RealUserIds, k \in Kinds : \E x \in Resources(k) : GrantAccess(u, k, x)
  \/ \E u \in RealUserIds, k \in Kinds : \E x \in Resources(k) : RevokeAccess(u, k, x)
  \/ \E ds \in Arrays(Devices), rs \in Arrays({"r1"}) : BeginSetUserAccess("u1", ds, rs)
  \/ TxGrant
  \/ TxCommit
  \/ TxInterrupt

SpecACLService == Init /\ [][NextACLService]_vars

\* ------------------------------------------------------------------ the hub
\* wss.on('connection'): the handler up to its await.  A demo session of the
\* demo user runs the handler to its end; any other session suspends at
\* await import('./user.service').
Connect(c, sid) ==
  /\ server.listening
  /\ conns[c].stage = "free"
  /\ \A c2 \in ConnIds : c2 < c => conns[c2].stage # "free"
  /\ sid \in {NoCookie, BogusId} \/ (sid \in SessionIds /\ sid < nextId)
  /\ LET session == IF sid = NoCookie THEN NULL
                    ELSE getSession_ret(demoSessions, dbSessions, sid, now)
         res == wsAuthenticate(sid, session)
         ws == [FreeConn EXCEPT !.readyState = "OPEN"]
     IN /\ demoSessions' = IF sid = NoCookie THEN demoSessions
                           ELSE getSession_demo(demoSessions, sid, now)
        /\ dbSessions' = IF sid = NoCookie THEN dbSessions
                         ELSE getSession_db(demoSessions, dbSessions, sid, now)
        /\ IF ~res.ok
           THEN /\ conns' = [conns EXCEPT ![c] =
                     [ws EXCEPT !.stage = "rejected", !.readyState = "CLOSING",
                                !.closeCode = res.code, !.sid = sid]]
                /\ UNCHANGED clients
           ELSE LET ws1 == [ws EXCEPT !.userId = session.userId,
                                      !.isDemoMode = Bool(session.isDemoMode),
                                      !.isAlive = "true"]
                IN IF session.isDemoMode /\ session.userId = DemoUserId
                   THEN /\ clients' = register(clients, ws1.userId, c)
                        /\ conns' = [conns EXCEPT ![c] =
                             sendToClient([ws1 EXCEPT !.stage = "registered"], Connected)]
                   ELSE /\ conns' = [conns EXCEPT ![c] = [ws1 EXCEPT !.stage = "await"]]
                        /\ UNCHANGED clients
  /\ UNCHANGED <<now, nextId, touchedAt, last, dbVars, reqs, wsClient, server>>

\* the handler after its await: register, install the handlers, greet
Resume(c) ==
  /\ ~server.exited
  /\ conns[c].stage = "await"
  /\ clients' = register(clients, conns[c].userId, c)
  /\ conns' = [conns EXCEPT ![c] =
       sendToClient([conns[c] EXCEPT !.stage = "registered", !.missed = 0], Connected)]
  /\ UNCHANGED <<sessionVars, last, dbVars, reqs, wsClient, server>>

\* a 'pong' handler that notes the answer without marking the connection
Pong_noMark(c) ==
  /\ conns[c].stage = "registered" /\ conns[c].readyState = "OPEN"
  /\ conns[c].link = "up"
  /\ conns[c].isAlive = "false"
  /\ conns' = [conns EXCEPT ![c] = [@ EXCEPT !.missed = 0]]
  /\ UNCHANGED <<sessionVars, last, dbVars, reqs, clients, wsClient, server>>

\* ws.on('pong'): the peer answers an outstanding probe
Pong(c) ==
  /\ conns[c].stage = "registered" /\ conns[c].readyState = "OPEN"
  /\ conns[c].link = "up"
  /\ conns[c].isAlive = "false"
  /\ conns' = [conns EXCEPT ![c] = [@ EXCEPT !.isAlive = "true", !.missed = 0]]
  /\ UNCHANGED <<sessionVars, last, dbVars, reqs, clients, wsClient, server>>

\* the transport's 'close' event: the peer went away, the closing handshake
\* ended, or the socket was destroyed by terminate().  wss.clients drops the
\* WebSocket; ws.on('close') runs only if the handler got as far as
\* installing it.
Close(c) ==
  /\ InWss(conns[c])
  /\ IF conns[c].stage = "await"
     THEN /\ conns' = [conns EXCEPT ![c] = [@ EXCEPT !.readyState = "CLOSED"]]
          /\ UNCHANGED clients
     ELSE /\ conns' = [conns EXCEPT ![c] = FreeConn]
          /\ clients' = IF conns[c].stage = "registered"
                        THEN unregister(clients, conns[c].userId, c) ELSE clients
  /\ UNCHANGED <<sessionVars, last, dbVars, reqs, wsClient, server>>

\* one run of the setInterval callback of startHeartbeat.  The 'close' event
\* of a socket destroyed by the previous run is dispatched long before the
\* next run, 30 s later.
Heartbeat ==
  /\ server.heartbeat
  /\ \A c \in ConnIds : conns[c].readyState # "TERMINATED"
  /\ \E c \in ConnIds : InWss(conns[c])
  /\ conns' = [c \in ConnIds |-> IF InWss(conns[c]) THEN sweep(conns[c]) ELSE conns[c]]
  /\ UNCHANGED <<sessionVars, last, dbVars, reqs, clients, wsClient, server>>

BroadcastDeviceUpdate(isDemoMode) ==
  /\ ~server.exited
  /\ conns' = broadcastDeviceUpdate(conns, isDemoMode)
  /\ \A c \in ConnIds : conns'[c] # conns[c] => Broadcasts(conns[c]) < MaxInbox
  /\ UNCHANGED <<sessionVars, last, dbVars, reqs, clients, wsClient, server>>

BroadcastToUser(userId) ==
  /\ ~server.exited
  /\ conns' = broadcastToUser(clients, conns, userId)
  /\ \A c \in ConnIds : conns'[c] # conns[c] => Broadcasts(conns[c]) < MaxInbox
  /\ UNCHANGED <<sessionVars, last, dbVars, reqs, clients, wsClient, server>>

\* the users of the hub: the bootstrap admin and the demo identity
HubUsers == {AdminId, DemoUserId}

NextHub ==
  \/ \E u \in HubUsers, m \in BOOLEAN : CreateSession(u, m)
  \/ \E c \in ConnIds, sid \in SessionIds \cup {NoCookie} : Connect(c, sid)
  \/ \E c \in ConnIds : Resume(c)
  \/ \E c \in ConnIds : Pong(c)
  \/ \E c \in ConnIds : Close(c)
  \/ Heartbeat
  \/ \E m \in BOOLEAN : BroadcastDeviceUpdate(m)
  \/ \E u \in HubUsers : BroadcastToUser(u)

SpecHub == Init /\ [][NextHub]_vars

\* the handshake under the clock: sessions expire before the upgrade arrives
NextHandshake ==
  \/ Tick
  \/ \E u \in HubUsers : CreateSession(u, u = DemoUserId)
  \/ \E c \in ConnIds, sid \in Tokens : Connect(c, sid)
  \/ \E c \in ConnIds : Resume(c)
  \/ \E c \in ConnIds : Close(c)
  \/ \E m \in BOOLEAN : BroadcastDeviceUpdate(m)
  \/ \E u \in HubUsers : BroadcastToUser(u)

SpecHandshake == Init /\ [][NextHandshake]_vars

\* POST /api/devices/:deviceId/command up to its first suspension.  bodyOk:
\* the body parses; deviceOk: smartThingsService.getDevice resolves (the
\* read of the previous value that follows swallows its errors).  A demo
\* request waits for its timer instead.
HandleCommand(r, bodyOk, deviceOk) ==
  /\ AtHandler(r, "command")
  /\ LET q == reqs[r] IN
       IF ~bodyOk \/ (~q.isDemoMode /\ ~deviceOk)
       THEN /\ reqs' = [reqs EXCEPT ![r] = Finish(q, Reply(500, "Failed to execute command"))]
            /\ audit' = auditInsert(audit, users, q)
       ELSE /\ reqs' = [reqs EXCEPT ![r] =
                 [q EXCEPT !.pc = IF q.isDemoMode THEN "demoDelay" ELSE "executeCommand"]]
            /\ UNCHANGED audit
  /\ UNCHANGED <<sessionVars, last, tx, users, everUsers, acl, hubVars, wsClient, server>>

\* the demo branch after its timer: broadcast with the demo flag, reply
DemoDelayElapses(r) ==
  /\ reqs[r].pc = "demoDelay"
  /\ LET q == [reqs[r] EXCEPT !.ran = @ \o <<"demoDelay", "broadcast">>] IN
       /\ conns' = broadcastDeviceUpdate(conns, TRUE)
       /\ reqs' = [reqs EXCEPT ![r] = Finish(q, Reply(200, ""))]
       /\ audit' = auditInsert(audit, users, q)
  /\ \A c \in ConnIds : conns'[c] # conns[c] => Broadcasts(conns[c]) < MaxInbox
  /\ UNCHANGED <<sessionVars, last, tx, users, everUsers, acl, clients, wsClient, server>>

\* a handler that announces the new state whether or not the command succeeded
CommandReturns_always(r, ok) ==
  /\ reqs[r].pc = "executeCommand"
  /\ LET q == reqs[r] IN
       /\ reqs' = [reqs EXCEPT ![r] =
            IF ok THEN [q EXCEPT !.pc = "getDeviceStatus", !.ran = Append(@, "executeCommand")]
            ELSE Finish([q EXCEPT !.ran = Append(@, "executeCommand:failed")],
                        Reply(500, "Failed to execute command"))]
       /\ audit' = IF ok THEN audit ELSE auditInsert(audit, users, q)
       /\ conns' = IF ok THEN conns ELSE broadcastDeviceUpdate(conns, FALSE)
  /\ UNCHANGED <<sessionVars, last, tx, users, everUsers, acl, clients, wsClient, server>>

\* smartThingsService.executeCommand settles; it rejects on an error status
\* and on the client's 10 s timeout, and the route's catch replies 500
CommandReturns(r, ok) ==
  /\ reqs[r].pc = "executeCommand"
  /\ LET q == reqs[r] IN
       IF ok
       THEN /\ reqs' = [reqs EXCEPT ![r] =
                 [q EXCEPT !.pc = "getDeviceStatus", !.ran = Append(@, "executeCommand")]]
            /\ UNCHANGED audit
       ELSE /\ reqs' = [reqs EXCEPT ![r] =
                 Finish([q EXCEPT !.ran = Append(@, "executeCommand:failed")],
                        Reply(500, "Failed to execute command"))]
            /\ audit' = auditInsert(audit, users, q)
  /\ UNCHANGED <<sessionVars, last, tx, users, everUsers, acl, hubVars, wsClient, server>>

\* the status read after the command settles: on success the real-mode
\* broadcast; a failure is logged and the request still succeeds
StatusReturns(r, ok) ==
  /\ reqs[r].pc = "getDeviceStatus"
  /\ LET q == reqs[r] IN
       /\ conns' = IF ok THEN broadcastDeviceUpdate(conns, FALSE) ELSE conns
       /\ reqs' = [reqs EXCEPT ![r] =
            Finish(IF ok THEN [q EXCEPT !.ran = Append(@, "broadcast")] ELSE q,
                   Reply(200, ""))]
       /\ audit' = auditInsert(audit, users, q)
  /\ \A c \in ConnIds : conns'[c] # conns[c] => Broadcasts(conns[c]) < MaxInbox
  /\ UNCHANGED <<sessionVars, last, tx, users, everUsers, acl, clients, wsClient, server>>

\* POST /api/scenes/:sceneId/execute; ok: smartThingsService.executeScene
\* resolves.  A demo request skips the call.  Neither branch touches the hub.
HandleSceneExecute(r, ok) ==
  /\ AtHandler(r, "sceneExecute")
  /\ LET q == reqs[r] IN
       /\ reqs' = [reqs EXCEPT ![r] =
            IF q.isDemoMode \/ ok THEN Finish(q, Reply(200, ""))
            ELSE Finish(q, Reply(500, "Failed to execute scene"))]
       /\ audit' = auditInsert(audit, users, q)
  /\ UNCHANGED <<sessionVars, last, tx, users, everUsers, acl, hubVars, wsClient, server>>

\* REST requests and push connections together: device commands and scene
\* executions while clients are connected
CommandRoutes == {"changePassword", "command", "sceneExecute"}

NextCommand ==
  \/ \E u \in HubUsers : Login(u, TRUE, TRUE)
  \/ \E r \in ReqIds, c \in SessionIds, route \in CommandRoutes,
        d \in {"d1", ""} : AuthGate(r, c, route, d)
  \/ \E r \in ReqIds : FirstLoginGate(r)
  \/ \E r \in ReqIds : ACLGate(r)
  \/ \E r \in ReqIds : HandleChangePassword(r, TRUE, FALSE, TRUE)
  \/ \E r \in ReqIds, bodyOk, deviceOk \in BOOLEAN : HandleCommand(r, bodyOk, deviceOk)
  \/ \E r \in ReqIds : DemoDelayElapses(r)
  \/ \E r \in ReqIds, ok \in BOOLEAN : CommandReturns(r, ok)
  \/ \E r \in ReqIds, ok \in BOOLEAN : StatusReturns(r, ok)
  \/ \E r \in ReqIds, ok \in BOOLEAN : HandleSceneExecute(r, ok)
  \/ \E c \in ConnIds, sid \in SessionIds : Connect(c, sid)
  \/ \E c \in ConnIds : Resume(c)
  \/ \E c \in ConnIds : Close(c)

SpecCommand == Init /\ [][NextCommand]_vars

\* the REST routes that write, called by real users and by the demo user
RestRoutes == {"logout", "changePassword", "devices", "command", "sceneExecute",
               "adminCreateUser", "adminDeleteUser", "adminSetAccess"}

NextRest ==
  \/ \E u \in UserIds, pwOk \in BOOLEAN : Login(u, TRUE, pwOk)
  \/ \E r \in ReqIds, c \in SessionIds, route \in RestRoutes,
        d \in {"d1", ""} : AuthGate(r, c, route, d)
  \/ \E r \in ReqIds : FirstLoginGate(r)
  \/ \E r \in ReqIds : ACLGate(r)
  \/ \E r \in ReqIds : HandleLogout(r)
  \/ \E r \in ReqIds, pwOk \in BOOLEAN : HandleChangePassword(r, TRUE, TRUE, pwOk)
  \/ \E r \in ReqIds : HandleDevices(r, TRUE)
  \/ \E r \in ReqIds : HandleCommand(r, TRUE, TRUE)
  \/ \E r \in ReqIds : DemoDelayElapses(r)
  \/ \E r \in ReqIds : CommandReturns(r, TRUE)
  \/ \E r \in ReqIds : StatusReturns(r, TRUE)
  \/ \E r \in ReqIds : HandleSceneExecute(r, TRUE)
  \/ \E r \in ReqIds : HandleAdminCreateUser(r, "u1", "user")
  \/ \E r \in ReqIds, u \in RealUserIds : HandleAdminDeleteUser(r, u)
  \/ \E r \in ReqIds, ds \in SUBSET {"d1"} : HandleAdminSetAccess(r, "u1", ds, {})

SpecRest == Init /\ [][NextRest]_vars

\* ------------------------------------------------- broadcasts on bad links
BroadcastToAll ==
  /\ ~server.exited
  /\ conns' = broadcastToAll(conns)
  /\ \A c \in ConnIds : conns'[c] # conns[c] => Broadcasts(conns[c]) < MaxInbox
  /\ UNCHANGED <<sessionVars, last, dbVars, reqs, clients, wsClient, server>>

\* the peer of an open connection stops reading
Stall(c) ==
  /\ conns[c].stage = "registered" /\ conns[c].readyState = "OPEN"
  /\ conns[c].link = "up"
  /\ conns' = [conns EXCEPT ![c].link = "stalled"]
  /\ UNCHANGED <<sessionVars, last, dbVars, reqs, clients, wsClient, server>>

\* the path to the peer of an open connection breaks: the next write fails
Break(c) ==
  /\ conns[c].stage = "registered" /\ conns[c].readyState = "OPEN"
  /\ conns[c].link # "broken"
  /\ conns' = [conns EXCEPT ![c].link = "broken"]
  /\ UNCHANGED <<sessionVars, last, dbVars, reqs, clients, wsClient, server>>

\* a text frame arrives on a connection whose 'message' handler is installed
Message(c, kind) ==
  /\ ~server.exited
  /\ conns[c].stage = "registered" /\ conns[c].readyState = "OPEN"
  /\ conns[c].link = "up"
  /\ conns' = [conns EXCEPT ![c] = onMessage(@, kind)]
  /\ conns'[c] # conns[c] => Broadcasts(conns[c]) < MaxInbox
  /\ last' = Ev(logged(kind), c, NULL, FALSE)
  /\ UNCHANGED <<sessionVars, dbVars, reqs, clients, wsClient, server>>

NextMessage ==
  \/ CreateSession(AdminId, FALSE)
  \/ \E c \in ConnIds, sid \in SessionIds : Connect(c, sid)
  \/ \E c \in ConnIds : Resume(c)
  \/ \E c \in ConnIds : Pong(c)
  \/ \E c \in ConnIds : Close(c)
  \/ Heartbeat
  \/ BroadcastDeviceUpdate(FALSE)
  \/ \E c \in ConnIds, kind \in MessageKinds : Message(c, kind)

SpecMessage == Init /\ [][NextMessage]_vars

NextBroadcast ==
  \/ \E u \in HubUsers : CreateSession(u, u = DemoUserId)
  \/ \E c \in ConnIds, sid \in SessionIds : Connect(c, sid)
  \/ \E c \in ConnIds : Resume(c)
  \/ \E c \in ConnIds : Close(c)
  \/ \E c \in ConnIds : Stall(c)
  \/ \E c \in ConnIds : Break(c)
  \/ \E m \in BOOLEAN : BroadcastDeviceUpdate(m)
  \/ \E u \in HubUsers : BroadcastToUser(u)
  \/ BroadcastToAll

SpecBroadcast == Init /\ [][NextBroadcast]_vars

\* ------------------------------------------------------------ process signals
\* SIGINT / SIGTERM: the handler calls fastify.close(), which makes the http
\* server stop listening and resolves once every connection has ended; it
\* does not call websocketService.shutdown()
Signal ==
  /\ server.listening
  /\ server' = [server EXCEPT !.listening = FALSE]
  /\ UNCHANGED <<sessionVars, last, dbVars, reqs, hubVars, wsClient>>

\* fastify.close() has resolved: db.close() and process.exit(0); the memory
\* of the process, the registry included, is gone
Exit ==
  /\ ~server.listening /\ ~server.exited
  /\ \A c \in ConnIds : ~InWss(conns[c])
  /\ server' = [server EXCEPT !.exited = TRUE, !.heartbeat = FALSE]
  /\ clients' = << >>
  /\ conns' = [c \in ConnIds |-> FreeConn]
  /\ UNCHANGED <<sessionVars, last, dbVars, reqs, wsClient>>

NextShutdown ==
  \/ \E u \in HubUsers : CreateSession(u, u = DemoUserId)
  \/ \E c \in ConnIds, sid \in SessionIds \cup {NoCookie} : Connect(c, sid)
  \/ \E c \in ConnIds : Resume(c)
  \/ \E c \in ConnIds : Pong(c)
  \/ \E c \in ConnIds : Close(c)
  \/ Heartbeat
  \/ \E m \in BOOLEAN : BroadcastDeviceUpdate(m)
  \/ Signal
  \/ Exit

SpecShutdown == Init /\ [][NextShutdown]_vars

\* the hub while sessions and users come and go: sessions are created,
\* deleted and swept, they expire under the clock, the first of them is
\* refreshed, and a user is created and deleted, while connections are made,
\* closed once their handshake has ended, and updates broadcast
NextRevoke ==
  \/ Tick
  \/ CreateUser("u1", "user")
  \/ DeleteUser("u1")
  \/ CreateSession("u1", FALSE)
  \/ RefreshSession(1)
  \/ \E sid \in SessionIds : DeleteSession(sid)
  \/ DeleteUserSessions("u1")
  \/ CleanupExpiredSessions
  \/ \E c \in ConnIds, sid \in SessionIds : Connect(c, sid)
  \/ \E c \in ConnIds : Resume(c)
  \/ \E c \in ConnIds : conns[c].stage # "await" /\ Close(c)
  \/ BroadcastDeviceUpdate(FALSE)

SpecRevoke == Init /\ [][NextRevoke]_vars

\* ------------------------------------------------------ audit rows get lost
\* the INSERT INTO audit_logs of request r is going to throw
AuditStoreFails(r) ==
  /\ reqs[r].pc \notin {"idle", "done"}
  /\ reqs[r].auditOk
  /\ reqs' = [reqs EXCEPT ![r].auditOk = FALSE]
  /\ UNCHANGED <<sessionVars, last, dbVars, hubVars, wsClient, server>>

AuditRoutes == {"logout", "changePassword", "devices", "command", "adminCreateUser"}

NextAudit ==
  \/ \E u \in HubUsers : Login(u, TRUE, TRUE)
  \/ \E r \in ReqIds, c \in SessionIds \cup {NoCookie}, route \in AuditRoutes,
        d \in {"d1", ""} : AuthGate(r, c, route, d)
  \/ \E r \in ReqIds : FirstLoginGate(r)
  \/ \E r \in ReqIds : ACLGate(r)
  \/ \E r \in ReqIds : AuditStoreFails(r)
  \/ \E r \in ReqIds : HandleLogout(r)
  \/ \E r \in ReqIds, pwOk \in BOOLEAN : HandleChangePassword(r, TRUE, TRUE, pwOk)
  \/ \E r \in ReqIds : HandleDevices(r, TRUE)
  \/ \E r \in ReqIds : HandleCommand(r, TRUE, TRUE)
  \/ \E r \in ReqIds : DemoDelayElapses(r)
  \/ \E r \in ReqIds, ok \in BOOLEAN : CommandReturns(r, ok)
  \/ \E r \in ReqIds : StatusReturns(r, TRUE)
  \/ \E r \in ReqIds : HandleAdminCreateUser(r, "u1", "user")

SpecAudit == Init /\ [][NextAudit]_vars

\* ------------------------------------------------------------- login alone
NextLogin ==
  \/ Tick
  \/ \E u \in UserIds, bodyOk, pwOk \in BOOLEAN : Login(u, bodyOk, pwOk)
  \/ \E role \in {"admin", "user"} : CreateUser("u1", role)
  \/ DeleteUser("u1")

SpecLogin == Init /\ [][NextLogin]_vars

\* ------------------------------------------------------- the client's events
clientRest == <<sessionVars, last, dbVars, reqs, hubVars, server>>

\* the application calls websocketClient.connect()
ClientConnect ==
  /\ ~IsOpen(wsClient) /\ HasFreeSock(wsClient)
  /\ wsClient' = connect(wsClient)
  /\ UNCHANGED clientRest

\* the application calls websocketClient.disconnect()
ClientDisconnect ==
  /\ wsClient.shouldReconnect \/ wsClient.ws # 0
  /\ wsClient' = disconnect(wsClient)
  /\ UNCHANGED clientRest

\* a reconnect timer fires and calls connect(); a handle to a timer that
\* has fired behaves as null
TimerFires(t) ==
  /\ wsClient.timers[t] # 0
  /\ IsOpen(wsClient) \/ HasFreeSock(wsClient)
  /\ wsClient' = connect([wsClient EXCEPT
         !.timers[t] = 0,
         !.reconnectTimeout = IF wsClient.reconnectTimeout = t THEN 0 ELSE @])
  /\ UNCHANGED clientRest

\* the handshake of socket s completes: the open event
SocketOpens(s) ==
  /\ wsClient.socks[s] = "connecting"
  /\ wsClient' = [onopen(wsClient, s) EXCEPT !.sinceOpen = 0]
  /\ UNCHANGED clientRest

\* the close event of socket s: the connection failed, was lost, was closed
\* by the server or by disconnect()
SocketCloses(s) ==
  /\ wsClient.socks[s] \in {"connecting", "open", "closing"}
  /\ HasFreeTimer(wsClient)
  /\ LET c == onclose(wsClient, s)
     IN wsClient' = [c EXCEPT !.sinceOpen = IF c.timers # wsClient.timers THEN @ + 1 ELSE @]
  /\ UNCHANGED clientRest

NextClient ==
  \/ ClientConnect
  \/ ClientDisconnect
  \/ \E t \in TimerIds : TimerFires(t)
  \/ \E s \in SockIds : SocketOpens(s)
  \/ \E s \in SockIds : SocketCloses(s)

SpecClient == Init /\ [][NextClient]_vars

\* the client of a session the server does not accept: every transport
\* opens, the handshake handler closes it with 1008, and the close event
\* follows; no socket closes before it has opened.  Timers fire, transports
\* open and rejected sockets close sooner or later; the application is free
\* to call connect() and disconnect() or not.
ServerRejects(s) ==
  /\ wsClient.socks[s] \in {"open", "closing"}
  /\ SocketCloses(s)

NextRejected ==
  \/ ClientConnect
  \/ ClientDisconnect
  \/ \E t \in TimerIds : TimerFires(t)
  \/ \E s \in SockIds : SocketOpens(s)
  \/ \E s \in SockIds : ServerRejects(s)

SpecRejected ==
  /\ Init /\ [][NextRejected]_vars
  /\ WF_vars(\E t \in TimerIds : TimerFires(t))
  /\ WF_vars(\E s \in SockIds : SocketOpens(s))
  /\ WF_vars(\E s \in SockIds : ServerRejects(s))

\* ================================================================ claims
Issued(sid) == sid \in SessionIds /\ sid < nextId

\* C1: once more than the timeout has passed since a session was created or
\* last refreshed, getSession(id) returns null and the record is gone from
\* its tier; an issued id that is in no tier stays in no tier, and
\* getSession keeps returning null for it.
C1_ExpiredGetEvicts ==
  [][\A sid \in SessionIds :
       /\ (/\ last'.op = "getSession" /\ last'.sid = sid
           /\ Stored(demoSessions, dbSessions, sid)
           /\ touchedAt[sid] + Timeout < now)
          => (last'.ret = NULL /\ ~Stored(demoSessions', dbSessions', sid))
       /\ (Issued(sid) /\ ~Stored(demoSessions, dbSessions, sid))
          => /\ ~Stored(demoSessions', dbSessions', sid)
             /\ (last'.op = "getSession" /\ last'.sid = sid) => last'.ret = NULL]_vars

\* an expired session has just been read: null came back and it was evicted
C1_Witness ==
  /\ last.op = "getSession" /\ last.ret = NULL /\ last.evicted
  /\ Issued(last.sid)
  /\ touchedAt[last.sid] + Timeout < now
  /\ ~Stored(demoSessions, dbSessions, last.sid)

\* the stored record of a session id, NULL when it is in no tier
Record(sid) ==
  IF sid \in DOMAIN demoSessions THEN demoSessions[sid]
  ELSE IF sid \in DOMAIN dbSessions THEN RowToSession(sid, dbSessions[sid])
  ELSE NULL

\* what the authenticate gate decides now for a request carrying sid
AuthPasses(sid) ==
  authMiddleware(sid, getSession_ret(demoSessions, dbSessions, sid, now)).pass

OwnerKnown(sid) ==
  \/ Record(sid).isDemoMode /\ Record(sid).userId = DemoUserId
  \/ Record(sid).userId \in DOMAIN users

\* request slot r passes the authenticate gate with cookie sid in this step
PassesAuth(r, sid) ==
  /\ reqs[r].pc \in {"idle", "done"}
  /\ reqs'[r].pc \notin {"idle", "done"}
  /\ reqs'[r].sessionId = sid

\* C2: sliding expiration.  The gate admits a stored session exactly while
\* no more than the timeout has passed since its creation or its last pass;
\* a pass at time t sets the expiration to t + timeout; and the expiration of
\* an existing session grows only in a step in which a request carrying it
\* passes the gate (a rejected request extends nothing).
C2_SlidingExpiration ==
  /\ [](\A sid \in SessionIds :
          AuthPasses(sid) <=> /\ Stored(demoSessions, dbSessions, sid)
                              /\ now <= touchedAt[sid] + Timeout
                              /\ OwnerKnown(sid))
  /\ [][\A sid \in SessionIds :
          /\ \A r \in ReqIds :
               PassesAuth(r, sid) =>
                 /\ Stored(demoSessions', dbSessions', sid)
                 /\ Record(sid)'.expiresAt = now + Timeout
                 /\ touchedAt'[sid] = now
          /\ (Stored(demoSessions, dbSessions, sid)
                /\ Stored(demoSessions', dbSessions', sid)
                /\ Record(sid)'.expiresAt > Record(sid).expiresAt)
             => \E r \in ReqIds : PassesAuth(r, sid)]_vars

\* a session is still admitted after the window that started at its creation
\* has closed, because a pass slid it forward
C2_Witness ==
  \E sid \in SessionIds :
    /\ Stored(demoSessions, dbSessions, sid)
    /\ Record(sid).createdAt + Timeout < now
    /\ AuthPasses(sid)

\* a session id that was issued and that the gate can no longer accept:
\* its record is gone (logout, cascade of the user removal) or its owner is
Revoked(sid) ==
  Issued(sid) /\ (~Stored(demoSessions, dbSessions, sid) \/ ~OwnerKnown(sid))

\* slot r runs the logout handler for session sid in this step
LogsOut(r, sid) ==
  /\ reqs[r].pc = "handler" /\ reqs[r].route = "logout" /\ reqs[r].sessionId = sid
  /\ reqs'[r].pc = "done"

\* C3: revocation is immediate.  The logout handler and the removal of a user
\* leave the session revoked; a revoked session stays revoked; the gate
\* answers 401 for it and no request carrying it gets past the gate.
C3_RevocationImmediate ==
  /\ [](\A sid \in SessionIds :
          Revoked(sid) =>
            /\ ~AuthPasses(sid)
            /\ authMiddleware(sid, getSession_ret(demoSessions, dbSessions, sid, now))
                 .reply.status = 401)
  /\ [][\A sid \in SessionIds :
          /\ \A r \in ReqIds : LogsOut(r, sid) => Revoked(sid)'
          /\ \A u \in RealUserIds :
               (u \in DOMAIN users /\ u \notin DOMAIN users' /\ Issued(sid)
                  /\ Record(sid).userId = u) => Revoked(sid)'
          /\ Revoked(sid) => (Revoked(sid)' /\ \A r \in ReqIds : ~PassesAuth(r, sid))]_vars

\* a request carrying a session that was logged out or lost its user has
\* been answered 401 by the authenticate gate
C3_Witness ==
  \E r \in ReqIds, sid \in SessionIds :
    /\ Revoked(sid)
    /\ reqs[r].pc = "done" /\ reqs[r].cookie = sid
    /\ reqs[r].reply = Reply(401, "Invalid or expired session")
    /\ reqs[r].ran = <<"auth">>

LastRan(q) == q.ran[Len(q.ran)]

\* C4: the gates fail closed and their rejections are typed.  A request is
\* at a gate or at its handler only after every earlier hook of its route
\* ran; a request rejected by a gate ran nothing after that gate; and each of
\* the replies 401 'Not authenticated', 401 'Invalid or expired session',
\* 403 'Password change required', 403 'Access denied' (status and error
\* text together) is sent by one gate for one condition only, never by a
\* handler.
C4_GatesFailClosed ==
  \A r \in ReqIds :
    LET q == reqs[r] IN
      /\ q.pc = "firstLogin" => q.ran = <<"auth">>
      /\ q.pc = "acl" => q.ran = <<"auth", "firstLogin">>
      /\ q.pc = "handler" => q.ran = Chain(q.route)
      /\ q.pc = "done" =>
           /\ LastRan(q) = "auth" =>
                /\ q.ran = <<"auth">> /\ q.reply.status = 401
                /\ (q.reply.error = "Not authenticated") <=> (q.cookie = NoCookie)
                /\ q.cookie # NoCookie =>
                     q.reply.error \in {"Invalid or expired session", "User not found"}
           /\ LastRan(q) = "firstLogin" =>
                /\ q.ran = <<"auth", "firstLogin">>
                /\ q.reply = Reply(403, "Password change required")
           /\ LastRan(q) = "acl" =>
                /\ q.ran = <<"auth", "firstLogin", "acl">>
                /\ q.reply = Reply(403, "Access denied")
           /\ LastRan(q) = "handler" =>
                /\ \E route \in Routes : q.ran = Chain(route) \o <<"handler">>
                /\ q.reply \notin {Reply(401, "Not authenticated"),
                                   Reply(401, "Invalid or expired session"),
                                   Reply(401, "User not found"),
                                   Reply(403, "Password change required"),
                                   Reply(403, "Access denied")}

\* the resource ACL gate has rejected a request that passed the two gates
\* before it
C4_Witness ==
  \E r \in ReqIds :
    /\ reqs[r].pc = "done"
    /\ reqs[r].reply = Reply(403, "Access denied")
    /\ reqs[r].ran = <<"auth", "firstLogin", "acl">>

AuthOnlyRoutes == {r \in Routes : Chain(r) = <<"auth">>}

\* slot r runs the first-login gate in this step
RunsFirstLogin(r) == reqs[r].pc = "firstLogin" /\ reqs'[r].pc # "firstLogin"

\* slot r completes a successful password change in this step
ChangesPassword(r) ==
  /\ reqs[r].pc = "handler" /\ reqs[r].route = "changePassword"
  /\ reqs'[r].pc = "done" /\ reqs'[r].reply.status = 200

PolicyGrants(a, userId, d) ==
  \/ BagIn(Row(userId, "device", d), a)
  \/ BagIn(Row(userId, "room", RoomOf(d)), a)

NoGrants(a, userId) == \A e \in DOMAIN a : e[1] # userId

\* request r was at the resource ACL gate and the gate has decided
ACLDecides(r) == reqs[r].pc = "acl" /\ reqs'[r] # reqs[r]

\* request r was at the device-list handler and the device API answered
ListsDevices(r) ==
  /\ reqs[r].pc = "handler" /\ reqs[r].route = "devices"
  /\ reqs'[r].reply = Reply(200, "")

\* C6: the resource ACL gate admits a request for device d as follows: a
\* demo-mode request always passes; otherwise a request of an admin passes for
\* any device whatever the access-control table holds; otherwise a request of
\* a standard user passes only if the user holds a direct grant of d or a
\* grant of d's room, and a standard user with no grants at all is denied
\* with 403 for every device and gets an empty device list.
C6_ACLGatePolicy ==
  [][\A r \in ReqIds :
       LET q == reqs[r]
           admitted == reqs'[r].pc = "handler" /\ reqs'[r].reply = NoReply
           standard == ~q.isDemoMode /\ q.user.role # "admin"
       IN /\ ACLDecides(r) =>
               /\ q.isDemoMode => admitted
               /\ (~q.isDemoMode /\ q.user.role = "admin") => admitted
               /\ (standard /\ admitted) => PolicyGrants(acl, q.user.id, q.deviceId)
               /\ (standard /\ NoGrants(acl, q.user.id)) =>
                     /\ reqs'[r].pc = "done"
                     /\ reqs'[r].reply = Reply(403, "Access denied")
          /\ (ListsDevices(r) /\ standard /\ NoGrants(acl, q.user.id)) =>
               reqs'[r].list = {}
    ]_vars

\* the gate has just denied a device with 403 to a standard user while the
\* table holds no grant at all
C6_Witness ==
  \E r \in ReqIds :
    /\ reqs[r].pc = "done"
    /\ reqs[r].reply = Reply(403, "Access denied")
    /\ reqs[r].ran = <<"auth", "firstLogin", "acl">>
    /\ acl = EmptyBag

\* C7: for a standard user granted a room and holding no direct device
\* grant, the access check for each device of that room is true and the
\* per-device gate admits the user's request for it.
C7_RoomImpliedAccess ==
  [][\A r \in ReqIds :
       LET q == reqs[r] IN
         ( /\ ACLDecides(r)
           /\ ~q.isDemoMode /\ q.user.role = "user"
           /\ getAccessibleDeviceIds(acl, q.user.id) = {}
           /\ RoomOf(q.deviceId) \in getAccessibleRoomIds(acl, q.user.id) )
         => /\ hasAccess(acl, q.user.id, "device", q.deviceId)
            /\ reqs'[r].pc = "handler"
    ]_vars

\* what the gate does in that case: a standard user whose only grant is the
\* device's room is at the gate
C7_RoomOnlyAtGate ==
  \E r \in ReqIds :
    LET q == reqs[r] IN
      /\ q.pc = "acl" /\ ~q.isDemoMode /\ q.user.role = "user"
      /\ getAccessibleDeviceIds(acl, q.user.id) = {}
      /\ RoomOf(q.deviceId) \in getAccessibleRoomIds(acl, q.user.id)

\* the messages of connection c
Inbox(c) == {conns[c].inbox[i] : i \in 1..Len(conns[c].inbox)}

\* C8: a device update broadcast with mode flag f is delivered to a
\* connection only if the connection's own mode flag equals f: a real-mode
\* broadcast never reaches a demo connection and a demo-mode broadcast never
\* reaches a real connection, also when both are registered under the same
\* user id.
C8_ModeIsolation ==
  \A c \in ConnIds : \A m \in Inbox(c) :
    m.type = "device-update" => m.tag = conns[c].isDemoMode

\* two open connections registered under one user id, one per mode; the
\* real one has received a real-mode update, the demo one has not
C8_Witness ==
  \E u \in DOMAIN clients : \E c1, c2 \in clients[u] :
    /\ conns[c1].isDemoMode = "false" /\ conns[c2].isDemoMode = "true"
    /\ conns[c1].readyState = "OPEN" /\ conns[c2].readyState = "OPEN"
    /\ DeviceUpdate(FALSE) \in Inbox(c1)
    /\ DeviceUpdate(FALSE) \notin Inbox(c2)

\* the handshake of connection c has just run
Upgrades(c) == conns[c].stage = "free" /\ conns'[c].stage # "free"

\* C9: a handshake whose sessionId parameter is missing, or whose session
\* lookup returns nothing (unknown or expired id), is closed at once with
\* code 1008; the connection is never in the registry and never receives a
\* message.
C9_RejectedHandshake ==
  /\ [](\A c \in ConnIds :
          conns[c].stage = "rejected" =>
            /\ conns[c].closeCode = 1008
            /\ conns[c].readyState # "OPEN"
            /\ ~Registered(clients, c)
            /\ conns[c].inbox = << >>)
  /\ [][\A c \in ConnIds :
          Upgrades(c) =>
            IF conns'[c].stage = "rejected"
            THEN /\ \/ conns'[c].sid = NoCookie
                    \/ getSession_ret(demoSessions, dbSessions, conns'[c].sid, now) = NULL
                 /\ conns'[c].readyState = "CLOSING"
            ELSE \E sid \in SessionIds :
                   LET session == getSession_ret(demoSessions, dbSessions, sid, now)
                   IN /\ session # NULL
                      /\ session.userId = conns'[c].userId
                      /\ Bool(session.isDemoMode) = conns'[c].isDemoMode
      ]_vars

\* a handshake that carried an issued id was rejected because the session
\* had expired, and while it is closing another connection receives a broadcast
C9_Witness ==
  \E c, c2 \in ConnIds :
    /\ conns[c].stage = "rejected" /\ conns[c].readyState = "CLOSING"
    /\ conns[c].sid \in SessionIds
    /\ touchedAt[conns[c].sid] + Timeout < now
    /\ conns[c2].stage = "registered"
    /\ \E m \in Inbox(c2) : m.type = "device-update"

\* connection c is in the registry and its transport has not closed
Probed(c) == Registered(clients, c) /\ conns[c].readyState # "CLOSED"

Precedes(ran, a, b) ==
  \E i, j \in 1..Len(ran) : i < j /\ ran[i] = a /\ ran[j] = b

Occurs(ran, a) == \E i \in 1..Len(ran) : ran[i] = a

\* connection c receives a real-mode device update in this step
GetsRealUpdate(c) ==
  /\ Len(conns'[c].inbox) = Len(conns[c].inbox) + 1
  /\ conns'[c].inbox[Len(conns'[c].inbox)] = DeviceUpdate(FALSE)

\* C11: a real-mode device command broadcasts the device update only after
\* the external command call has completed successfully; when the call fails
\* or times out the request emits no broadcast and is answered with a failure.
C11_BroadcastAfterCommand ==
  /\ [](\A r \in ReqIds :
          LET ran == reqs[r].ran IN
            /\ (Occurs(ran, "broadcast") /\ ~Occurs(ran, "demoDelay")) =>
                  Precedes(ran, "executeCommand", "broadcast")
            /\ Occurs(ran, "executeCommand:failed") =>
                  /\ ~Occurs(ran, "broadcast")
                  /\ reqs[r].pc = "done"
                  /\ reqs[r].reply = Reply(500, "Failed to execute command"))
  /\ [][(\E c \in ConnIds : GetsRealUpdate(c)) =>
          \E r \in ReqIds :
            /\ reqs[r].pc = "getDeviceStatus"
            /\ Occurs(reqs[r].ran, "executeCommand")
            /\ reqs'[r].pc = "done"
            /\ reqs'[r].reply = Reply(200, "")
      ]_vars

\* a command has succeeded and its update has reached a real-mode connection
C11_Witness ==
  \E r \in ReqIds, c \in ConnIds :
    /\ reqs[r].pc = "done"
    /\ Precedes(reqs[r].ran, "executeCommand", "broadcast")
    /\ conns[c].isDemoMode = "false"
    /\ DeviceUpdate(FALSE) \in Inbox(c)

\* this step is createSession(userId, m) returning id sid
Creates(sid, m) ==
  /\ last'.op = "createSession" /\ last'.sid = sid /\ last'.ret.isDemoMode = m
  /\ nextId' = sid + 1

DemoLogin ==
  nextId' = nextId + 1 /\ nextId \in DOMAIN demoSessions'

\* this step belongs to request r and r carries a demo session
DemoRequestStep(r) ==
  /\ reqs'[r] # reqs[r]
  /\ \/ reqs[r].isDemoMode
     \/ reqs'[r].isDemoMode
     \/ reqs[r].pc \in {"idle", "done"} /\ reqs'[r].cookie \in DOMAIN demoSessions

Of(a, userId) == [e \in {x \in DOMAIN a : x[1] = userId} |-> a[e]]

\* C14: ACL idempotence and uniqueness.  After any sequence of grantAccess,
\* revokeAccess and setUserAccess calls the table holds at most one row per
\* (user, kind, resource id); granting twice leaves exactly one row and the
\* same table as granting once; revoking a grant that is not stored leaves
\* the table unchanged.
C14_ACLIdempotent ==
  /\ \A e \in DOMAIN acl : CopiesIn(e, acl) = 1
  /\ \A u \in RealUserIds, k \in Kinds : \A x \in Resources(k) :
       LET once == grantAccess(acl, users, u, k, x)
           twice == grantAccess(once, users, u, k, x)
       IN /\ twice = once
          /\ u \in DOMAIN users => CopiesIn(Row(u, k, x), twice) = 1
          /\ ~hasAccess(acl, u, k, x) => revokeAccess(acl, u, k, x) = acl

\* a grant of a row that was already stored has just been executed, while
\* the table holds rows of two users
C14_Witness ==
  /\ last = Call("grantAccess", TRUE)
  /\ tx = NoTx
  /\ CopiesIn(Row("u1", "device", "d1"), acl) = 1
  /\ CopiesIn(Row(AdminId, "room", "r2"), acl) = 1

\* the rows a call setUserAccess(userId, devices, rooms) asks for
Requested(userId, devices, rooms) ==
  SetToBag({Row(userId, "device", devices[i]) : i \in 1..Len(devices)}
           \cup {Row(userId, "room", rooms[i]) : i \in 1..Len(rooms)})

\* C15: setUserAccess is atomic.  From BEGIN until the transaction ends, and
\* in the state an interruption leaves behind, the stored rows of the user
\* are exactly those held before the call or exactly the requested device
\* and room grants, never a partial mixture; the rows of every other user
\* are unchanged; a commit stores what the one-step setUserAccess computes.
C15_SetUserAccessAtomic ==
  [][ tx.stage = "open" =>
        LET u == tx.userId IN
          /\ \/ Of(acl', u) = Of(acl, u)
             \/ Of(acl', u) = Requested(u, tx.devices, tx.rooms)
          /\ \A v \in RealUserIds \ {u} : Of(acl', v) = Of(acl, v)
          /\ tx'.stage = "open" => acl' = acl
          /\ acl' # acl => acl' = setUserAccess(acl, users, u, tx.devices, tx.rooms) ]_vars

\* a transaction is open over a user who holds rows, and its working copy
\* is neither the rows held before, nor the requested rows, nor empty
C15_Witness ==
  /\ tx.stage = "open"
  /\ Of(acl, "u1") # EmptyBag
  /\ Of(acl, AdminId) # EmptyBag
  /\ Of(tx.work, "u1") # Of(acl, "u1")
  /\ Of(tx.work, "u1") # Requested("u1", tx.devices, tx.rooms)
  /\ Of(tx.work, "u1") # EmptyBag

\* the stored sessions of userId, in either tier
SessionsOf(d, b, userId) ==
  {sid \in DOMAIN d : d[sid].userId = userId} \cup {sid \in DOMAIN b : b[sid].userId = userId}

\* C16: when a user is removed, every session of that user is gone from both
\* tiers in the same step, and at no time does a stored session belong to a
\* user id that is neither in the users table nor the built-in demo user.
C16_RemovalDeletesSessions ==
  /\ [](\A u \in RealUserIds \ DOMAIN users : SessionsOf(demoSessions, dbSessions, u) = {})
  /\ [][\A u \in DOMAIN users \ DOMAIN users' :
          SessionsOf(demoSessions', dbSessions', u) = {}]_vars

\* u1 logged in last and got a session; a request of the admin has been
\* answered 200, u1 is gone and so is that session
C16_Witness ==
  /\ last.op = "login" /\ last.status = 200 /\ last.userId = "u1"
  /\ "u1" \notin DOMAIN users
  /\ ~Stored(demoSessions, dbSessions, last.sessionId)
  /\ \E r \in ReqIds : /\ reqs[r].pc = "done" /\ reqs[r].reply.status = 200
                        /\ reqs[r].cookie \in DOMAIN dbSessions
                        /\ dbSessions[reqs[r].cookie].userId = AdminId

\* a reconnect timer is set in this step
SetsTimer == \E t \in TimerIds : wsClient.timers[t] = 0 /\ wsClient'.timers[t] # 0
\* a socket of the client gets its open event in this step
Opens == \E s \in SockIds : wsClient.socks[s] = "connecting" /\ wsClient'.socks[s] = "open"

\* C17: client reconnect bound.  Between two open events the client sets at
\* most maxReconnectAttempts (10) reconnect timers, and sets none once the
\* count is reached; every open event puts the attempt counter back to zero
\* and the backoff base back to its initial value.
C17_ReconnectBound ==
  /\ [](wsClient.sinceOpen <= maxReconnectAttempts)
  /\ [][SetsTimer => wsClient.sinceOpen < maxReconnectAttempts]_vars
  /\ [][Opens => /\ wsClient'.reconnectAttempts = 0
                  /\ wsClient'.reconnectDelay = InitialReconnectDelay
                  /\ wsClient'.sinceOpen = 0]_vars

\* ten timers have been set since the last open event, the last socket has
\* closed while reconnecting is wanted, and no timer is pending
C17_Witness ==
  /\ wsClient.sinceOpen = maxReconnectAttempts
  /\ wsClient.shouldReconnect
  /\ \A t \in TimerIds : wsClient.timers[t] = 0
  /\ \A s \in SockIds : wsClient.socks[s] = "none"

\* the schedule the backoff is stated to follow: min(1000 * 1.5^(n-1), 30000)
StatedDelay(n) ==
  Min(InitialReconnectDelay * 3^(n - 1) * 2^(maxReconnectAttempts - (n - 1)),
      Ms(maxReconnectDelay))

\* C18: client backoff schedule.  The timer set for the n-th reconnect
\* attempt since the last open event waits min(1000 ms * 1.5^(n-1), 30000 ms):
\* 1 second for the first attempt, 1.5 times more for each following one,
\* never more than 30 seconds.
C18_BackoffSchedule ==
  [][\A t \in TimerIds :
       (wsClient.timers[t] = 0 /\ wsClient'.timers[t] # 0) =>
          wsClient'.timers[t] = StatedDelay(wsClient'.sinceOpen)]_vars

\* the timer of the first reconnect attempt after an open connection was
\* lost is pending, and it waits 1500 ms
C18_FirstDelay ==
  /\ wsClient.sinceOpen = 1
  /\ wsClient.reconnectTimeout # 0
  /\ wsClient.timers[wsClient.reconnectTimeout] = Ms(1500)

\* request r is a scene execution under a demo session answered 200 in this step
DemoSceneExecutes(r) ==
  /\ reqs[r].pc = "handler" /\ reqs[r].route = "sceneExecute" /\ reqs[r].isDemoMode
  /\ reqs'[r].pc = "done" /\ reqs'[r].reply = Reply(200, "")

\* connection c has completed the handshake with a demo session and is open
DemoListener(c) ==
  /\ conns[c].stage = "registered" /\ conns[c].readyState = "OPEN"
  /\ conns[c].isDemoMode = "true"

\* C19: end-to-end trial scenario.  After a login with the trial credentials
\* and a handshake with the returned session id, a scene execution under
\* that session produces a broadcast tagged isDemoMode = true that reaches
\* the demo connection and no connection opened with a non-demo session.
C19_TrialScenario ==
  [][\A r \in ReqIds : DemoSceneExecutes(r) =>
        \A c \in ConnIds :
          /\ DemoListener(c) => conns'[c].inbox = Append(conns[c].inbox, DeviceUpdate(TRUE))
          /\ conns[c].isDemoMode # "true" => conns'[c].inbox = conns[c].inbox]_vars

\* the demo user is logged in with an ephemeral session and no row, the
\* handshake with that session has succeeded, a scene execution under it
\* has been answered 200, and the connection has received nothing but the
\* greeting
C19_NoSceneBroadcast ==
  \E r \in ReqIds, c \in ConnIds :
    /\ reqs[r].pc = "done" /\ reqs[r].reply = Reply(200, "")
    /\ reqs[r].ran = <<"auth", "firstLogin", "handler">>
    /\ reqs[r].cookie \in DOMAIN demoSessions
    /\ dbSessions = << >>
    /\ DemoListener(c)
    /\ conns[c].inbox = <<Connected>>

\* this step is a login request that changed something or got a new answer
LoginStep == last'.op = "login" /\ (last' # last \/ nextId' # nextId)
\* the credentials of the last login request are those of a known account
Accepted(l, us) == l.bodyOk /\ l.pwOk /\ (l.account = DemoUserId \/ l.account \in DOMAIN us)

C21_AuditIsolation ==
  \A r \in ReqIds :
    reqs[r].pc = "done" =>
      /\ reqs[r].reply = reqs[r].handed
      /\ reqs[r].reply # NoReply

\* the admin's device command went through, its audit row was lost, and the
\* request was answered 200
C21_Witness ==
  \E r \in ReqIds :
    /\ reqs[r].pc = "done" /\ ~reqs[r].auditOk
    /\ Precedes(reqs[r].ran, "executeCommand", "broadcast")
    /\ reqs[r].reply = Reply(200, "")
    /\ reqs[r].cookie \in DOMAIN dbSessions
    /\ dbSessions[reqs[r].cookie].userId \notin audit

\* connection c is open: its handshake was accepted and its transport is up
OpenConn(c) == conns[c].stage \in {"await", "registered"} /\ conns[c].readyState = "OPEN"

\* C22: on process shutdown, by the time the listener stops accepting, the
\* heartbeat sweep is stopped and every open connection has been closed
\* with the server-shutting-down notice (close code 1001); from then on the
\* registry is empty and no broadcast delivers anything.
C22_ShutdownNotice ==
  /\ [](~server.listening =>
          /\ ~server.heartbeat
          /\ clients = << >>
          /\ \A c \in ConnIds : ~OpenConn(c))
  /\ [][(server.listening /\ ~server'.listening) =>
          \A c \in ConnIds : OpenConn(c) => conns'[c].closeCode = 1001]_vars
  /\ [][~server.listening => \A c \in ConnIds : conns'[c].inbox = conns[c].inbox]_vars

\* the listener has stopped accepting, the heartbeat is still set, and a
\* registered connection that was never sent a close frame has received a
\* device update
C22_OpenAfterSignal ==
  \E c \in ConnIds :
    /\ ~server.listening /\ ~server.exited /\ server.heartbeat
    /\ OpenConn(c) /\ Registered(clients, c)
    /\ conns[c].closeCode = 0
    /\ DeviceUpdate(FALSE) \in Inbox(c)

\* connection c is handed frame m in this step: delivered, or queued on a
\* link that does not take it
Handed(c, m) ==
  \/ conns'[c].inbox = Append(conns[c].inbox, m)
  \/ /\ conns[c].readyState = "OPEN" /\ conns[c].link # "up"
     /\ conns'[c].link = conns[c].link /\ conns'[c].stage = conns[c].stage
     /\ conns'[c] # conns[c] /\ conns'[c].pending = m
\* the write to connection c fails in this step
SendFails(c) ==
  /\ conns[c].readyState = "OPEN" /\ conns[c].link = "broken"
  /\ conns'[c].stage = conns[c].stage /\ conns'[c] # conns[c]
\* the connections a broadcast of frame m is for
Audience(m) ==
  {c \in ConnIds :
     /\ InWss(conns[c]) /\ conns[c].readyState = "OPEN"
     /\ \/ m = AllMessage
        \/ \E b \in BOOLEAN : m = DeviceUpdate(b) /\ conns[c].isDemoMode = Bool(b)
        \/ \E u \in HubUsers : m = UserMessage(u) /\ u \in DOMAIN clients /\ c \in clients[u]}
Frames == {AllMessage} \cup {DeviceUpdate(b) : b \in BOOLEAN} \cup {UserMessage(u) : u \in HubUsers}

\* C23: a broadcast is not held up by a bad connection.  In the step in
\* which any connection is handed a frame, every connection of the frame's
\* audience whose link is up receives it, whatever the state of the other
\* links; a connection whose write failed is not OPEN afterwards, so it is
\* sent nothing more, and its close event takes it out of the registry.
C23_BroadcastNotBlocked ==
  /\ [][\A m \in Frames :
          (\E c \in ConnIds : Handed(c, m)) =>
             \A c2 \in Audience(m) :
                conns[c2].link = "up" => conns'[c2].inbox = Append(conns[c2].inbox, m)]_vars
  /\ [][\A c \in ConnIds :
          /\ SendFails(c) => conns'[c].readyState = "CLOSING"
          /\ (conns[c].readyState = "CLOSING" /\ conns[c].link = "broken") =>
                /\ conns'[c].inbox = conns[c].inbox \/ conns'[c].stage = "free"
                /\ conns'[c].stage = "free" => ~Registered(clients', c)]_vars

\* one broadcast found a broken link and an open one: the write to the
\* first failed, the second received the update
C23_Witness ==
  \E c, c2 \in ConnIds :
    /\ conns[c].link = "broken" /\ conns[c].readyState = "CLOSING"
    /\ conns[c].pending = DeviceUpdate(FALSE)
    /\ c < c2
    /\ conns[c2].link = "up" /\ conns[c2].readyState = "OPEN"
    /\ conns[c2].inbox = <<Connected, DeviceUpdate(FALSE)>>

\* C24: broadcastToUser(u, event) delivers the event to every open connection
\* registered under u and changes no connection registered under another user
\* or not registered at all; when u has no registry entry the call returns
\* without delivering anything.
C24_UserBroadcast ==
  /\ [](\A u \in HubUsers :
          u \notin DOMAIN clients => broadcastToUser(clients, conns, u) = conns)
  /\ [][\A u \in HubUsers :
          (\E c \in ConnIds : Handed(c, UserMessage(u))) =>
             /\ u \in DOMAIN clients
             /\ \A c \in ConnIds :
                   IF c \in clients[u]
                   THEN (conns[c].readyState = "OPEN" /\ conns[c].link = "up") =>
                           conns'[c].inbox = Append(conns[c].inbox, UserMessage(u))
                   ELSE conns'[c] = conns[c]]_vars

\* the admin's connection received the message for the admin while an open
\* connection registered under the demo identity holds only its greeting
C24_Witness ==
  \E c, c2 \in ConnIds :
     /\ AdminId \in DOMAIN clients /\ c \in clients[AdminId]
     /\ conns[c].inbox = <<Connected, UserMessage(AdminId)>>
     /\ DemoUserId \in DOMAIN clients /\ c2 \in clients[DemoUserId]
     /\ conns[c2].readyState = "OPEN" /\ conns[c2].link = "up"
     /\ conns[c2].inbox = <<Connected>>

\* C25: once the transport of a connection has closed (its 'close' event has
\* occurred), at any point after the handshake began, the connection is not
\* in the registry: no connection whose transport is closed is registered.
C25_ClosedNotRegistered ==
  \A c \in ConnIds : conns[c].readyState = "CLOSED" => ~Registered(clients, c)

\* a connection of the admin whose transport closed during the await of the
\* handshake and which the handler registered when it resumed
C25_ClosedDuringAwait ==
  \E c \in ConnIds :
     /\ conns[c].stage = "registered" /\ conns[c].readyState = "CLOSED"
     /\ conns[c].userId = AdminId /\ conns[c].inbox = <<>>
     /\ AdminId \in DOMAIN clients /\ c \in clients[AdminId]

\* C26: in every reachable state each user id that is a key of the registry
\* maps to a non-empty set of connections, and a step that takes the last
\* connection of a user out of the registry removes the user's key.
C26_NoEmptyEntry ==
  /\ [](\A u \in DOMAIN clients : clients[u] # {})
  /\ [][\A u \in DOMAIN clients :
          (\A c \in clients[u] : ~Registered(clients', c)) => u \notin DOMAIN clients']_vars

\* slots are taken lowest first and every handshake of this specification is
\* admitted, so a free slot below a registered connection is a slot whose
\* connection was registered and whose close handler has run
C26_Witness ==
  /\ conns[1].stage = "free" /\ conns[2].stage = "registered"
  /\ DOMAIN clients = {conns[2].userId} /\ clients[conns[2].userId] = {2}

\* this step is a run of the heartbeat: some connection is visited
Sweeps == \E c \in ConnIds : conns'[c].missed = conns[c].missed + 1

C28_RegistryConsistent ==
  /\ [](\A c \in ConnIds :
          /\ Registered(clients, c) <=> conns[c].stage = "registered"
          /\ \A u \in DOMAIN clients : c \in clients[u] => u = conns[c].userId)
  /\ [][\A c \in ConnIds :
          /\ (Upgrades(c) /\ conns'[c].stage # "rejected") =>
                \E sid \in SessionIds :
                   LET session == getSession_ret(demoSessions, dbSessions, sid, now)
                   IN /\ session # NULL /\ ~IsExpired(session.expiresAt, now)
                      /\ conns'[c].userId = session.userId
                      /\ conns'[c].isDemoMode = Bool(session.isDemoMode)
          /\ (conns[c].stage \in {"await", "registered"} /\ conns'[c].stage # "free") =>
                /\ conns'[c].userId = conns[c].userId
                /\ conns'[c].isDemoMode = conns[c].isDemoMode
                /\ conns'[c].stage \in {"await", "registered"}
          /\ (~Registered(clients, c) /\ Registered(clients', c)) =>
                c \in clients'[conns'[c].userId]]_vars

\* a connection of the admin is registered under the admin's key with the
\* flag of its session, next to a connection of the demo identity, at a time
\* when no session of the admin is valid any more
C28_Witness ==
  \E c, c2 \in ConnIds :
     /\ clients = (AdminId :> {c}) @@ (DemoUserId :> {c2})
     /\ conns[c].isDemoMode = "false" /\ conns[c].readyState = "OPEN"
     /\ conns[c2].isDemoMode = "true" /\ conns[c2].readyState = "OPEN"
     /\ \A sid \in SessionIds :
           getSession_ret(demoSessions, dbSessions, sid, now).userId # AdminId

\* rows a sessions table can hold at time t that have expired: written for
\* an existing user at createdAt, last refreshed at expiresAt - Timeout
ExpiredRows(t) ==
  {r \in [userId : DOMAIN users, expiresAt : 0..(MaxTime + Timeout), createdAt : 0..MaxTime] :
     IsExpired(r.expiresAt, t) /\ r.createdAt + Timeout <= r.expiresAt}

\* table g holds the rows of table b and, besides, only expired rows
Related(b, g, t) ==
  /\ DOMAIN b \subseteq DOMAIN g
  /\ \A k \in DOMAIN b : g[k] = b[k]
  /\ \A k \in DOMAIN g \ DOMAIN b : IsExpired(g[k].expiresAt, t)

\* the tables the run without sweeps can hold when the run with sweeps holds
\* b: b and, under ids issued earlier and now absent, expired rows
Unswept(d, b, n, t) ==
  UNION {{[k \in DOMAIN b \cup S |-> IF k \in DOMAIN b THEN b[k] ELSE f[k]] :
             f \in [S -> ExpiredRows(t)]} :
           S \in SUBSET {k \in SessionIds : k < n /\ k \notin DOMAIN b /\ k \notin DOMAIN d}}

\* in the current state the run with sweeps and the run without sweeps
\* answer every getSession alike, and whatever the server does next (a
\* handshake's getSession, a request through authMiddleware, a logout, a
\* login, a sweep, the passing of time) leaves the two tables related
SweepUnobservable ==
  \A g \in Unswept(demoSessions, dbSessions, nextId, now) :
     /\ Related(dbSessions, g, now)
     /\ \A sid \in Tokens :
          /\ getSession_ret(demoSessions, dbSessions, sid, now)
               = getSession_ret(demoSessions, g, sid, now)
          /\ Related(getSession_db(demoSessions, dbSessions, sid, now),
                     getSession_db(demoSessions, g, sid, now), now)
          /\ auth_demo(demoSessions, dbSessions, sid, now) = auth_demo(demoSessions, g, sid, now)
          /\ Related(auth_db(demoSessions, dbSessions, sid, now),
                     auth_db(demoSessions, g, sid, now), now)
          /\ Related(deleteSession_db(demoSessions, dbSessions, sid),
                     deleteSession_db(demoSessions, g, sid), now)
     /\ \A u \in {AdminId, DemoUserId} :
          Related(createSession_db(dbSessions, nextId, u, u = DemoUserId, now),
                  createSession_db(g, nextId, u, u = DemoUserId, now), now)
     /\ Related(cleanupExpiredSessions_db(dbSessions, now), g, now)
     /\ Related(dbSessions, g, now + 1)

\* this step is a run of the sweep
SweepRuns == last'.op = "cleanupExpiredSessions"

\* the sweep deletes exactly the rows whose expiration is in the past
SweepExact ==
  SweepRuns =>
    /\ DOMAIN dbSessions' = {k \in DOMAIN dbSessions : ~IsExpired(dbSessions[k].expiresAt, now)}
    /\ \A k \in DOMAIN dbSessions' : dbSessions'[k] = dbSessions[k]

\* the sweep deletes only rows whose expiration is in the past, and all of
\* those that expired a second ago or earlier
SweepWithinSecond ==
  SweepRuns =>
    /\ \A k \in DOMAIN dbSessions :
          /\ k \notin DOMAIN dbSessions' => IsExpired(dbSessions[k].expiresAt, now)
          /\ dbSessions[k].expiresAt + Second <= now => k \notin DOMAIN dbSessions'
    /\ \A k \in DOMAIN dbSessions' : k \in DOMAIN dbSessions /\ dbSessions'[k] = dbSessions[k]
    /\ demoSessions' = demoSessions

Malformed(c) ==
  /\ last' # last /\ last'.sid = c
  /\ last'.op \in {logged("garbage"), logged("unknown")}

\* C30: an inbound message that does not parse or has an unknown type is
\* ignored: the connection stays open with its liveness flag as it was, the
\* registry is unchanged, and a broadcast for the connection's mode issued
\* next is delivered to it.
C30_MalformedIgnored ==
  [][\A c \in ConnIds :
       Malformed(c) =>
         /\ conns' = conns /\ clients' = clients
         /\ conns'[c].readyState = "OPEN" /\ Registered(clients', c)
         /\ \A b \in BOOLEAN :
              conns'[c].isDemoMode = Bool(b) =>
                broadcastDeviceUpdate(conns', b)[c].inbox
                  = Append(conns'[c].inbox, DeviceUpdate(b))]_vars

\* an unparseable message has just been logged for a registered, open
\* connection that carries an unanswered probe and an earlier update
C30_Witness ==
  /\ last.op = logged("garbage") /\ last.sid \in ConnIds
  /\ conns[last.sid].stage = "registered" /\ conns[last.sid].readyState = "OPEN"
  /\ conns[last.sid].isAlive = "false" /\ conns[last.sid].missed = 1
  /\ Registered(clients, last.sid)
  /\ conns[last.sid].inbox = <<Connected, DeviceUpdate(FALSE)>>

\* C31: after disconnect() and until connect() is called again (which is
\* what sets shouldReconnect), no reconnect timer is pending, and no step
\* sets one: the close event of the socket being closed schedules nothing.
C31_DisconnectStops ==
  /\ [](~wsClient.shouldReconnect => \A t \in TimerIds : wsClient.timers[t] = 0)
  /\ [][(~wsClient.shouldReconnect /\ ~wsClient'.shouldReconnect) =>
          \A t \in TimerIds :
             wsClient'.timers[t] # 0 => wsClient'.timers[t] = wsClient.timers[t]]_vars

\* disconnect() has run, the client holds no socket and no timer handle, and
\* a reconnect timer set before it is still pending
C31_TimerSurvivesDisconnect ==
  /\ ~wsClient.shouldReconnect
  /\ wsClient.ws = 0 /\ wsClient.reconnectTimeout = 0
  /\ \A s \in SockIds : wsClient.socks[s] = "none"
  /\ \E t \in TimerIds : wsClient.timers[t] # 0

\* the sessions of user u in the two tiers
OwnedBy(d, b, u) ==
  {k \in DOMAIN d : d[k].userId = u} \cup {k \in DOMAIN b : b[k].userId = u}

\* C32: deleteSession(id) and refreshSession(id) for an id that is in no tier,
\* and deleteUserSessions(u) for a user without sessions, leave both tiers as
\* they are; an id that is in no tier comes into one only by createSession
\* (so a refresh after a delete does not re-create it); deleteUserSessions(u)
\* leaves every session of another user as it is.
C32_AbsentNoOp ==
  /\ [](\A u \in UserIds :
          LET d2 == deleteUserSessions_demo(demoSessions, u)
              b2 == deleteUserSessions_db(dbSessions, u)
          IN /\ OwnedBy(demoSessions, dbSessions, u) = {} =>
                   d2 = demoSessions /\ b2 = dbSessions
             /\ \A k \in DOMAIN demoSessions :
                   demoSessions[k].userId # u => k \in DOMAIN d2 /\ d2[k] = demoSessions[k]
             /\ \A k \in DOMAIN dbSessions :
                   dbSessions[k].userId # u => k \in DOMAIN b2 /\ b2[k] = dbSessions[k])
  /\ [][\A sid \in Tokens :
          /\ (/\ last'.op \in {"deleteSession", "refreshSession"} /\ last'.sid = sid
              /\ ~Stored(demoSessions, dbSessions, sid))
             => demoSessions' = demoSessions /\ dbSessions' = dbSessions
          /\ (~Stored(demoSessions, dbSessions, sid) /\ Stored(demoSessions', dbSessions', sid))
             => last'.op = "createSession" /\ last'.sid = sid
          /\ last'.op = "deleteUserSessions" =>
               \E u \in UserIds :
                  /\ demoSessions' = deleteUserSessions_demo(demoSessions, u)
                  /\ dbSessions' = deleteUserSessions_db(dbSessions, u)]_vars

\* refreshSession has just been called for an issued id that was deleted
\* before it expired, and the id is in no tier
C32_Witness ==
  /\ last.op = "refreshSession" /\ Issued(last.sid)
  /\ ~Stored(demoSessions, dbSessions, last.sid)
  /\ now <= touchedAt[last.sid] + Timeout

\* C33: once getSession would return null for an issued id (its record has
\* expired or is gone), it returns null for that id in every later state,
\* whatever get, refresh, delete or sweep follows.
C33_ExpiredStaysInvalid ==
  [][\A sid \in SessionIds :
       (Issued(sid) /\ getSession_ret(demoSessions, dbSessions, sid, now) = NULL)
         => getSession_ret(demoSessions', dbSessions', sid, now') = NULL]_vars

\* a durable record whose expiration has passed is still stored: no read has
\* evicted it and the sweep has left it (or has not run)
C33_ExpiredUnevicted ==
  \E sid \in DOMAIN dbSessions :
     /\ IsExpired(dbSessions[sid].expiresAt, now)
     /\ touchedAt[sid] + Timeout < now
     /\ last.op = "cleanupExpiredSessions"

\* C34: every session of the in-memory tier is flagged ephemeral and owned
\* by the reserved demo identity, and every request to which authMiddleware
\* attached isDemoMode = true carries the synthesized demo user (role user,
\* firstLogin false), never a record of the users table: the demo bypass of
\* deviceACLMiddleware is applied to no real user.
C34_EphemeralIsTrial ==
  /\ \A k \in DOMAIN demoSessions :
        demoSessions[k].isDemoMode /\ demoSessions[k].userId = DemoUserId
  /\ \A k \in DOMAIN dbSessions : dbSessions[k].userId # DemoUserId
  /\ \A r \in ReqIds :
        reqs[r].isDemoMode =>
          /\ reqs[r].user = DemoUser
          /\ reqs[r].user.id \notin DOMAIN users

\* a request of the demo session has passed deviceACLMiddleware by the demo
\* bypass while a durable session of the admin is stored
C34_Witness ==
  \E r \in ReqIds :
     /\ reqs[r].isDemoMode /\ reqs[r].user = DemoUser
     /\ reqs[r].route = "device" /\ reqs[r].pc = "handler"
     /\ Occurs(reqs[r].ran, "acl")
     /\ \E k \in DOMAIN dbSessions : dbSessions[k].userId = AdminId

\* user u owns no session that getSession would return
NoValidSession(u) ==
  \A k \in DOMAIN demoSessions \cup DOMAIN dbSessions :
     LET session == getSession_ret(demoSessions, dbSessions, k, now)
     IN session # NULL => session.userId # u

\* C35: the registry changes only when a handshake registers a connection,
\* when a transport's close event unregisters one, and when the process ends;
\* a step that creates, refreshes, deletes or sweeps sessions, lets time
\* pass, or creates or deletes a user leaves registry and connections as they
\* are; and a broadcast reaches every registered open connection of its mode,
\* also one whose session is no longer valid or whose user is deleted.
C35_RegistryFrame ==
  /\ [][clients' # clients =>
          \/ \E c \in ConnIds :
                /\ conns[c].stage # "registered" /\ conns'[c].stage = "registered"
                /\ clients' = register(clients, conns'[c].userId, c)
          \/ \E c \in ConnIds :
                /\ conns[c].stage = "registered" /\ conns'[c].stage = "free"
                /\ clients' = unregister(clients, conns[c].userId, c)
          \/ ~server.exited /\ server'.exited /\ clients' = << >>]_vars
  /\ [][(last' # last \/ users' # users) => (clients' = clients /\ conns' = conns)]_vars
  /\ [](\A c \in ConnIds :
          (conns[c].stage = "registered" /\ InWss(conns[c])) => Registered(clients, c))
  /\ [][\A b \in BOOLEAN :
          (\E c \in ConnIds : Handed(c, DeviceUpdate(b))) =>
             \A c2 \in ConnIds :
               (/\ conns[c2].stage = "registered" /\ conns[c2].readyState = "OPEN"
                /\ conns[c2].isDemoMode = Bool(b)
                /\ NoValidSession(conns[c2].userId))
               => conns'[c2].inbox = Append(conns[c2].inbox, DeviceUpdate(b))]_vars

\* a connection of a deleted user, whose session went with the user, is
\* registered and open and holds a device update
C35_Witness ==
  \E c \in ConnIds :
    /\ conns[c].stage = "registered" /\ conns[c].readyState = "OPEN"
    /\ Registered(clients, c)
    /\ conns[c].userId \notin DOMAIN users
    /\ NoValidSession(conns[c].userId)
    /\ conns[c].inbox = <<Connected, DeviceUpdate(FALSE)>>

\* a REST request carrying a session id of user u would pass authMiddleware
GatePasses(u) ==
  \E sid \in SessionIds :
    LET session == getSession_ret(demoSessions, dbSessions, sid, now)
    IN /\ Issued(sid) /\ session # NULL /\ session.userId = u
       /\ authMiddleware(sid, session).pass

\* C36: the hub and the pipeline agree on who is authenticated.  For every
\* issued session id the handshake's decision is authMiddleware's decision,
\* and a connection is registered and greeted only at a moment at which a
\* REST request carrying a session id of the connection's user would pass
\* authMiddleware.
C36_HubAgreesWithGate ==
  /\ [](\A sid \in SessionIds :
          Issued(sid) =>
            LET session == getSession_ret(demoSessions, dbSessions, sid, now)
            IN wsAuthenticate(sid, session).ok = authMiddleware(sid, session).pass)
  /\ [][\A c \in ConnIds :
          (conns[c].stage # "registered" /\ conns'[c].stage = "registered")
             => GatePasses(conns'[c].userId)]_vars

\* a connection was registered and greeted under a user that has no record
\* in the users table and owns no session: authMiddleware answers 401 to
\* every request made in that user's name
C36_RegisteredUnknown ==
  \E c \in ConnIds :
    /\ conns[c].stage = "registered" /\ conns[c].readyState = "OPEN"
    /\ conns[c].inbox = <<Connected>>
    /\ conns[c].userId \in everUsers \ DOMAIN users
    /\ ~GatePasses(conns[c].userId)

\* C37: 'connected' is the first message a connection is sent.  Every
\* non-empty inbox starts with it, and a connection that is not yet
\* registered has been sent nothing.
C37_ConnectedFirst ==
  \A c \in ConnIds :
    /\ conns[c].inbox # << >> => Head(conns[c].inbox) = Connected
    /\ conns[c].stage # "registered" => conns[c].inbox = << >>

\* a connection was sent a device update while its handshake was suspended
\* and was greeted afterwards
C37_UpdateBeforeConnected ==
  \E c \in ConnIds :
    /\ conns[c].stage = "registered"
    /\ Registered(clients, c)
    /\ conns[c].inbox = <<DeviceUpdate(FALSE), Connected>>

\* the client's sockets that are connecting or open, and its pending timers
LiveSocks == {s \in SockIds : wsClient.socks[s] \in {"connecting", "open"}}
PendingTimers == {t \in TimerIds : wsClient.timers[t] # 0}

\* C38: the client holds at most one transport that is connecting or open
\* and at most one pending reconnect timer.
C38_OneTransportOneTimer ==
  /\ Cardinality(LiveSocks) <= 1
  /\ Cardinality(PendingTimers) <= 1

\* two sockets of the client are connecting at once: the one this.ws refers
\* to and the one an earlier connect() made, whose handlers stay attached
C38_TwoTransports ==
  /\ Cardinality(LiveSocks) = 2
  /\ wsClient.ws \in LiveSocks
  /\ \A s \in LiveSocks : wsClient.socks[s] = "connecting"
  /\ wsClient.shouldReconnect

\* the client has given up: no socket is connecting or open and no
\* reconnect timer is pending
Stopped == LiveSocks = {} /\ PendingTimers = {}

\* C39: a client all of whose connections the server closes right after
\* they open eventually stops reconnecting, unless the application keeps
\* calling connect() or disconnect() for ever.
C39_EventuallyStops ==
  \/ <>[]Stopped
  \/ []<><<ClientConnect \/ ClientDisconnect>>_vars

\* a rejected client has scheduled a retry and its attempt counter, reset
\* by the open event that preceded the rejection, stands at one
C39_RetryAfterReject ==
  /\ wsClient.shouldReconnect
  /\ LiveSocks = {}
  /\ Cardinality(PendingTimers) = 1
  /\ wsClient.reconnectAttempts = 1

\* the users with role admin
Admins == {u \in DOMAIN users : users[u].role = "admin"}

\* C40: at least one user with role admin exists in every reachable state.
C40_AdminExists == Admins # {}

\* two admin requests have been answered 200 and no user has role admin
C40_NoAdminLeft ==
  /\ Admins = {}
  /\ \E r1, r2 \in ReqSlots :
       /\ r1 # r2
       /\ reqs[r1].pc = "done" /\ reqs[r1].reply.status = 200
       /\ reqs[r2].pc = "done" /\ reqs[r2].reply.status = 200

====
